---- MODULE Spec2Model ----
(***************************************************************************)
(* Model of the synchronization engine of jira-fork-tool:                  *)
(*   SyncEngine   (src/src/jira_fork_tool/sync/__init__.py)                *)
(*   StateManager (src/src/jira_fork_tool/utils/__init__.py)               *)
(*   JiraAPI      (src/src/jira_fork_tool/api/__init__.py)                 *)
(* Source issue keys "P-n" are modelled by their number n; destination     *)
(* issue keys by the position of the issue in the destination project.     *)
(* SQLite and HTTP calls either return or raise; an exception is modelled  *)
(* by its message, the empty string meaning that nothing was raised.       *)
(***************************************************************************)
EXTENDS Integers, Sequences, FiniteSets, TLC

\* ---- bounds of the model ----
MaxIssueNum == 3
MaxBatch == 2
MaxResumes == 1
MaxClock == 2
MaxSourceNames == 2
MaxDestEntities == 2

IssueNums == 1..MaxIssueNum
\* sync ids are uuid4 strings: the one of the fork run a behaviour follows,
\* and the one of a fork run that ended before the behaviour starts
NewId == "uuid-new"
EarlierId == "uuid-earlier"
SessionIds == {NewId, EarlierId}
\* the identifiers a caller may pass to resume_sync: one names no session
ResumeIds == SessionIds \cup {"uuid-unknown"}

VARIABLES
    source,            \* issue numbers present in the source project
    batch_size,        \* config.sync.batch_size
    now,               \* CURRENT_TIMESTAMP of the latest write to the store
    sessions,          \* table sync_sessions, keyed by sync_id
    checkpoints,       \* table checkpoints, position = autoincrement id
    issue_mappings,    \* table issue_mappings
    destIssues,        \* issues of the destination project, in creation order
    engineReady,       \* self.issue_type_mapping / self.dest_link_types are set
    forked,            \* fork_project was called
    resumes,           \* number of resumes that reached the transfer loop
    pc,                \* position of the running operation
    mode,              \* "fork" or "resume": the caller of the transfer loop
    sync_id,           \* sync_id of the running operation
    start_from,        \* start_from argument of the transfer (0 is None)
    issues,            \* list fetched by get_issues_in_order
    start_index,       \* first index of the transfer loop
    i,                 \* loop index of _process_issues_sequentially
    cpDone,            \* the checkpoint of iteration i is written
    issue_mapping,     \* in-memory dict source key -> destination key
    issues_processed,  \* counter of _process_issues_sequentially
    err,               \* str(e) of the exception being handled
    lastResult,        \* what the last top-level operation gave its caller
    run,               \* history of the running operation
    attempted,         \* history: <<sync_id, key>> of every loop iteration that ended
    category,          \* the vocabulary a mapping function is applied to
    source_names,      \* its argument source_types / source_statuses
    dest_names,        \* names of its argument dest_types, in received order
    mapping,           \* the dict it returned
    mapped,            \* it has returned
    issue_keys,        \* the keys get_all_issue_keys gave _detect_issue_gaps
    gaps,              \* the list _detect_issue_gaps returned
    gaps_detected,     \* it has returned
    text_fn,           \* the function of content_handler.py that is applied
    text_arg,          \* its argument
    text_out,          \* what it returned
    text_again,        \* what it returned when applied to text_out
    text_calls,        \* number of applications made
    live_types,        \* issue types of the destination project as they are now
    metadata_changes,  \* number of changes made to them since the setup
    type_used,         \* history: source type name and id put in each payload
    links,             \* the list get_all_issue_links returned
    epics,             \* the list get_all_epic_links returned
    link_pc,           \* position of _synchronize_relationships
    link_pos,          \* number of entries the running loop has gone through
    links_created,     \* counter of _synchronize_relationships
    links_failed,      \* counter of _synchronize_relationships
    dest_links,        \* issue links of the destination, in creation order
    link_log,          \* history: what was done for each entry: the link types
                       \* of the creation calls, which calls returned, the outcome
    issue_pc,          \* position of _process_single_issue from line 957 on
    issue_fields,      \* numbers of attachments and comments of the source issue
    include_attachments, \* config.sync.include_attachments
    include_comments,  \* config.sync.include_comments
    item_pos,          \* number of items the running transfer loop has gone through
    issue_calls,       \* history: the writes that returned, in order
    interrupted_at,    \* position at which the process was interrupted
    mapping_recorded,  \* the store holds the mapping row of the issue
    inc_pc,            \* position of incremental_sync
    changes,           \* keys of the issues _detect_changes_since returned
    changes_processed, \* what _process_incremental_changes returned
    dest_updates,      \* destination issues update_issue was applied to
    inc_created,       \* changed issues a new destination issue was created for
    inc_refused        \* changed issues whose request the destination refused

durable == <<sessions, checkpoints, issue_mappings, destIssues>>
config == <<source, batch_size>>
locals == <<mode, sync_id, start_from, issues, start_index, i, cpDone, issue_mapping,
            issues_processed, err>>
vars == <<source, batch_size, now, sessions, checkpoints, issue_mappings,
          destIssues, engineReady, forked, resumes, pc, mode, sync_id, start_from,
          issues,
          start_index, i, cpDone, issue_mapping, issues_processed, err,
          lastResult, run, attempted,
          category, source_names, dest_names, mapping, mapped,
          issue_keys, gaps, gaps_detected,
          text_fn, text_arg, text_out, text_again, text_calls,
          live_types, metadata_changes, type_used,
          links, epics, link_pc, link_pos, links_created, links_failed,
          dest_links, link_log,
          issue_pc, issue_fields, include_attachments, include_comments,
          item_pos, issue_calls, interrupted_at, mapping_recorded,
          inc_pc, changes, changes_processed, dest_updates, inc_created,
          inc_refused>>
enginevars == <<source, batch_size, now, sessions, checkpoints, issue_mappings,
                destIssues, engineReady, forked, resumes, pc, mode, sync_id,
                start_from, issues, start_index, i, cpDone, issue_mapping,
                issues_processed, err, lastResult, run, attempted>>
mapvars == <<category, source_names, dest_names, mapping, mapped>>
gapvars == <<issue_keys, gaps, gaps_detected>>
textvars == <<text_fn, text_arg, text_out, text_again, text_calls>>
typevars == <<live_types, metadata_changes, type_used>>
linkvars == <<links, epics, link_pc, link_pos, links_created, links_failed,
              dest_links, link_log>>
issuevars == <<issue_pc, issue_fields, include_attachments, include_comments,
               item_pos, issue_calls, interrupted_at, mapping_recorded>>
incvars == <<inc_pc, changes, changes_processed, dest_updates, inc_created,
             inc_refused>>
funvars == <<gapvars, textvars, typevars, linkvars, issuevars, incvars>>

\* no single issue is followed through its steps
IssueIdle ==
    /\ issue_pc = "none"
    /\ issue_fields = [attachments |-> 0, comments |-> 0]
    /\ include_attachments = TRUE
    /\ include_comments = TRUE
    /\ item_pos = 0
    /\ issue_calls = <<>>
    /\ interrupted_at = "none"
    /\ mapping_recorded = FALSE

\* no incremental synchronization is followed through its steps
IncrementalIdle ==
    /\ inc_pc = "none"
    /\ changes = <<>>
    /\ changes_processed = 0
    /\ dest_updates = {}
    /\ inc_created = {}
    /\ inc_refused = {}

\* no issue is given its type
TypeIdle ==
    /\ live_types = <<>>
    /\ metadata_changes = 0
    /\ type_used = <<>>

\* no relationship is synchronized
LinkIdle ==
    /\ links = <<>>
    /\ epics = <<>>
    /\ link_pc = "none"
    /\ link_pos = 0
    /\ links_created = 0
    /\ links_failed = 0
    /\ dest_links = <<>>
    /\ link_log = <<>>

\* no gap detection is under way
GapIdle ==
    /\ issue_keys = <<>>
    /\ gaps = <<>>
    /\ gaps_detected = FALSE

\* no function of content_handler.py is applied
TextIdle ==
    /\ text_fn = "none"
    /\ text_arg = [type |-> "NoneType"]
    /\ text_out = [type |-> "NoneType"]
    /\ text_again = [type |-> "NoneType"]
    /\ text_calls = 0

\* no mapping function is applied
MapIdle ==
    /\ category = "none"
    /\ source_names = {}
    /\ dest_names = <<>>
    /\ mapping = <<>>
    /\ mapped = FALSE

\* ---- helpers ----
Range(s) == {s[k] : k \in DOMAIN s}

Min(S) == CHOOSE x \in S : \A y \in S : x <= y

RECURSIVE Ascending(_)
Ascending(S) == IF S = {} THEN <<>> ELSE <<Min(S)>> \o Ascending(S \ {Min(S)})

Ascends(s) == \A a, b \in DOMAIN s : a < b => s[a] < s[b]

\* ---- JiraAPI ----
\* the search ordered the other way round
get_issues_in_order_desc(src) ==
    [k \in 1..Cardinality(src) |-> Ascending(src)[Cardinality(src) + 1 - k]]

\* the search "project = P ORDER BY key ASC", all pages concatenated
get_issues_in_order(src) == Ascending(src)

\* ---- StateManager ----
\* a StateManager that also answers get_project_analysis
StateManagerMethods_analysis ==
    {"create_sync_session", "complete_sync_session", "fail_sync_session",
     "get_sync_session", "get_last_successful_sync", "create_checkpoint",
     "get_last_checkpoint", "save_project_analysis", "save_user_mapping",
     "get_project_analysis"}

\* the methods class StateManager defines; calling any other name on a
\* StateManager raises AttributeError
StateManagerMethods ==
    {"create_sync_session", "complete_sync_session", "fail_sync_session",
     "get_sync_session", "get_last_successful_sync", "create_checkpoint",
     "get_last_checkpoint", "save_project_analysis", "save_user_mapping"}

NoAttribute(method) ==
    IF method \in StateManagerMethods THEN ""
    ELSE "'StateManager' object has no attribute '" \o method \o "'"

create_sync_session(S, id) ==
    [k \in DOMAIN S \cup {id} |->
        IF k = id
        THEN [status |-> "running", end_time |-> 0, error_message |-> "",
              sync_type |-> "fork"]
        ELSE S[k]]

complete_sync_session(S, id, t) ==
    [k \in DOMAIN S |->
        IF k = id THEN [S[k] EXCEPT !.status = "completed", !.end_time = t]
        ELSE S[k]]

fail_sync_session(S, id, msg, t) ==
    [k \in DOMAIN S |->
        IF k = id
        THEN [S[k] EXCEPT !.status = "failed", !.end_time = t,
                          !.error_message = msg]
        ELSE S[k]]

create_checkpoint(C, id, phase, progress, total, key, t) ==
    Append(C, [sync_id |-> id, phase |-> phase, progress |-> progress,
               total |-> total, timestamp |-> t,
               data |-> [last_processed_issue |-> key]])

\* rows "WHERE sync_id = ? ORDER BY timestamp DESC LIMIT 1" may return: SQL
\* leaves the order of rows with equal timestamps open
get_last_checkpoint(C, id) ==
    {k \in DOMAIN C :
        /\ C[k].sync_id = id
        /\ \A j \in DOMAIN C : C[j].sync_id = id => C[j].timestamp <= C[k].timestamp}

\* CURRENT_TIMESTAMP of the next write: the clock of the store has a
\* resolution of one second and never goes back
Timestamps == {t \in {now, now + 1} : t <= MaxClock}

\* ---- results ----
NoResult ==
    [kind |-> "none", op |-> "none", sync_id |-> "", success |-> FALSE,
     issues_processed |-> 0, error_message |-> ""]

SyncResult(op, id, success, processed, msg) ==
    [kind |-> "returned", op |-> op, sync_id |-> id, success |-> success,
     issues_processed |-> processed, error_message |-> msg]

Raised(op, id, msg) ==
    [kind |-> "raised", op |-> op, sync_id |-> id, success |-> FALSE,
     issues_processed |-> 0, error_message |-> msg]

NoRun ==
    [attempted |-> <<>>, failed |-> {}, created |-> <<>>, fault |-> FALSE,
     raisedIn |-> "", target |-> "none", checkpoint |-> "none",
     before |-> <<>>, cpFailed |-> {}, afterInterrupt |-> FALSE,
     relations |-> [called |-> FALSE, keys |-> {}]]

\* what a fork run of an earlier process over the source project [P-1] left
\* behind: checkpoint of index 0, P-1 created, save_issue_mapping raised
EarlierSessions ==
    fail_sync_session(create_sync_session(<<>>, EarlierId), EarlierId,
                      NoAttribute("save_issue_mapping"), 1)

EarlierCheckpoints ==
    create_checkpoint(<<>>, EarlierId, "issue_processing", 0, 1, 1, 1)

EarlierIssues == <<[source_key |-> 1, sync_id |-> EarlierId]>>

Snapshot == <<sessions, checkpoints, issue_mappings, Len(destIssues)>>

Init ==
    /\ source \in SUBSET IssueNums
    /\ batch_size \in 1..MaxBatch
    /\ now = 1
    /\ \E earlier \in BOOLEAN :
        /\ sessions = IF earlier THEN EarlierSessions ELSE <<>>
        /\ checkpoints = IF earlier THEN EarlierCheckpoints ELSE <<>>
        /\ destIssues = IF earlier THEN EarlierIssues ELSE <<>>
    /\ issue_mappings = {}
    /\ engineReady = FALSE
    /\ forked = FALSE
    /\ resumes = 0
    /\ pc = "idle"
    /\ mode = "none"
    /\ sync_id = ""
    /\ start_from = 0
    /\ issues = <<>>
    /\ start_index = 0
    /\ i = 0
    /\ cpDone = FALSE
    /\ issue_mapping = <<>>
    /\ issues_processed = 0
    /\ err = ""
    /\ lastResult = NoResult
    /\ run = NoRun
    /\ attempted = {}
    /\ category = "none"
    /\ source_names = {}
    /\ dest_names = <<>>
    /\ mapping = <<>>
    /\ mapped = FALSE
    /\ GapIdle
    /\ TextIdle
    /\ TypeIdle
    /\ LinkIdle
    /\ IssueIdle
    /\ IncrementalIdle

\* ---- SyncEngine ----
\* lines 609-615: index of start_from in the list, 0 when absent or None
StartIndex(iss, from) ==
    IF from # 0 /\ \E k \in DOMAIN iss : iss[k] = from
    THEN Min({k \in DOMAIN iss : iss[k] = from}) - 1
    ELSE 0

\* the loop "for i, issue in enumerate(issues[start_index:], start=start_index)"
\* goes on with index k, or is exhausted
LoopNext(iss, k) == IF k < Len(iss) THEN "loop" ELSE "finish"

ResetLocals ==
    /\ mode' = "none"
    /\ sync_id' = ""
    /\ start_from' = 0
    /\ issues' = <<>>
    /\ start_index' = 0
    /\ i' = 0
    /\ cpDone' = FALSE
    /\ issue_mapping' = <<>>
    /\ issues_processed' = 0
    /\ err' = ""

\* fork_project, lines 93-108: new sync id, create_sync_session
ForkProject(from) ==
    /\ pc = "idle"
    /\ ~forked
    /\ forked' = TRUE
    /\ sync_id' = NewId
    /\ mode' = "fork"
    /\ start_from' = from
    /\ lastResult' = NoResult
    /\ \E ok \in BOOLEAN :
        IF ok
        THEN /\ sessions' = create_sync_session(sessions, NewId)
             /\ err' = ""
             /\ pc' = "phases"
             /\ run' = [NoRun EXCEPT !.before = Snapshot, !.target = "new"]
        ELSE /\ sessions' = sessions
             /\ err' = "sqlite3.OperationalError"
             /\ pc' = "handler"
             /\ run' = [NoRun EXCEPT !.before = Snapshot, !.target = "new",
                                     !.fault = TRUE,
                                     !.raisedIn = "session creation"]
    /\ issues' = <<>>
    /\ start_index' = 0
    /\ i' = 0
    /\ cpDone' = FALSE
    /\ issue_mapping' = <<>>
    /\ issues_processed' = 0
    /\ UNCHANGED <<config, now, checkpoints, issue_mappings, destIssues,
                   engineReady, resumes, attempted, mapvars, funvars>>

\* the phase of fork_project that raises under outcome o, "" when phases 1-3
\* and the fetch of the ordered list all return
PhaseError(o) ==
    CASE o = "analysis" -> "Failed to analyze source project"
      [] o = "setup" -> "Failed to set up destination project"
      [] o = "users" -> "KeyError: 'accountId'"
      [] o = "fetch" -> "Failed to process issues"
      [] OTHER -> ""

\* fork_project, lines 110-128, and _process_issues_sequentially up to the
\* loop, lines 596-616
RunPhases ==
    /\ pc = "phases"
    /\ \E o \in {"ok", "analysis", "setup", "users", "fetch"} :
        /\ engineReady' = IF o \in {"analysis", "setup"} THEN engineReady ELSE TRUE
        /\ err' = PhaseError(o)
        /\ IF o = "ok"
           THEN /\ issues' = get_issues_in_order(source)
                /\ start_index' = StartIndex(issues', start_from)
                /\ i' = start_index'
                /\ pc' = LoopNext(issues', i')
                /\ run' = run
           ELSE /\ pc' = "handler"
                /\ run' = [run EXCEPT !.fault = TRUE, !.raisedIn = o]
                /\ UNCHANGED <<issues, start_index, i>>
    /\ issue_mapping' = <<>>
    /\ issues_processed' = 0
    /\ cpDone' = FALSE
    /\ UNCHANGED <<config, now, durable, forked, resumes, mode, sync_id,
                   start_from, lastResult, attempted, mapvars, funvars>>

\* a failed issue is tried again instead of skipped
NextIndex_retry(failed, k) == IF failed THEN k ELSE k + 1

\* line 617: the index the loop takes after the iteration of index k
NextIndex(failed, k) == k + 1

\* the first failure ends the loop
AfterIteration_break(failed, iss, k) == IF failed THEN "finish" ELSE LoopNext(iss, k)

\* lines 645-650: "except Exception" logs and the loop goes on
AfterIteration(failed, iss, k) == LoopNext(iss, k)

\* the iteration of index i ends, with an exception when failed; cpRaised:
\* the exception came from create_checkpoint
EndIteration(failed, createdKey, cpRaised) ==
    /\ i' = NextIndex(failed, i)
    /\ cpDone' = FALSE
    /\ pc' = AfterIteration(failed, issues, i')
    /\ run' = [run EXCEPT
                 !.attempted = Append(@, i),
                 !.failed = IF failed THEN @ \cup {i} ELSE @,
                 !.created = IF createdKey # 0 THEN Append(@, createdKey) ELSE @,
                 !.cpFailed = IF cpRaised THEN @ \cup {i} ELSE @]
    /\ attempted' = attempted \cup {<<sync_id, issues[i + 1]>>}

\* the checkpoint is written once the batch is through
CheckpointDue_after(k, n) == (k + 1) % n = 0

\* line 620: "if i % self.config.sync.batch_size == 0"
CheckpointDue(k, n) == k % n = 0

\* the total counts the issues from the start index on
CheckpointTotal_remaining(iss, start) == Len(iss) - start

\* line 625: "total=len(issues)", the whole fetched list
CheckpointTotal(iss, start) == Len(iss)

\* lines 619-627: the checkpoint of a batch boundary
CreateCheckpoint ==
    /\ pc = "loop"
    /\ ~cpDone
    /\ CheckpointDue(i, batch_size)
    /\ \E ok \in BOOLEAN, t \in Timestamps :
        IF ok
        THEN /\ checkpoints' = create_checkpoint(checkpoints, sync_id,
                                   "issue_processing", i,
                                   CheckpointTotal(issues, start_index),
                                   issues[i + 1], t)
             /\ now' = t
             /\ cpDone' = TRUE
             /\ UNCHANGED <<i, pc, run, attempted>>
        ELSE /\ checkpoints' = checkpoints
             /\ now' = now
             /\ EndIteration(TRUE, 0, TRUE)
    /\ UNCHANGED <<config, sessions, issue_mappings, destIssues,
                   engineReady, forked, resumes, mode, sync_id, start_from,
                   issues, start_index, issue_mapping, issues_processed, err,
                   lastResult, mapvars, funvars>>

\* _process_single_issue up to create_issue, lines 920-958: the exception
\* raised before the destination issue exists, "" when it is created
CreateError(o) ==
    IF ~engineReady THEN "'SyncEngine' object has no attribute 'issue_type_mapping'"
    ELSE IF o = "api_error" THEN "Failed to process issue"
    ELSE IF o = "transform_error" THEN "KeyError: 'fields'"
    ELSE ""

\* _process_single_issue after create_issue, lines 960-989
RecordError == NoAttribute("add_issue_mapping")

\* lines 629-650: one issue through _process_single_issue
ProcessSingleIssue ==
    /\ pc = "loop"
    /\ cpDone \/ ~CheckpointDue(i, batch_size)
    /\ \E o \in {"created", "api_error", "transform_error"} :
        LET key == issues[i + 1]
            created == CreateError(o) = ""
            ok == created /\ RecordError = ""
            dest_key == Len(destIssues) + 1
        IN  /\ destIssues' = IF created
                             THEN Append(destIssues,
                                         [source_key |-> key, sync_id |-> sync_id])
                             ELSE destIssues
            /\ issues_processed' = IF ok THEN issues_processed + 1
                                   ELSE issues_processed
            /\ issue_mapping' = IF ok
                                THEN [k \in DOMAIN issue_mapping \cup {key} |->
                                        IF k = key THEN dest_key ELSE issue_mapping[k]]
                                ELSE issue_mapping
            /\ EndIteration(~ok, IF created THEN key ELSE 0, FALSE)
    /\ UNCHANGED <<config, now, sessions, checkpoints, issue_mappings,
                   engineReady, forked, resumes, mode, sync_id, start_from,
                   issues, start_index, err, lastResult, mapvars, funvars>>

\* what follows the loop: save_issue_mapping (line 653), relationship sync
\* (lines 674-683) and validation (line 767); the first exception raised
FinishError ==
    IF NoAttribute("save_issue_mapping") # "" THEN NoAttribute("save_issue_mapping")
    ELSE IF ~engineReady THEN "'SyncEngine' object has no attribute 'dest_link_types'"
    ELSE NoAttribute("get_issue_mapping")

\* line 132 and line 875: the call of _synchronize_relationships, reached
\* when save_issue_mapping (line 653) returned, and the keys of the mapping
\* it is given
RelationsCall(im) ==
    IF NoAttribute("save_issue_mapping") = ""
    THEN [called |-> TRUE, keys |-> DOMAIN im]
    ELSE [called |-> FALSE, keys |-> {}]

\* lines 652-660, then lines 130-159 of fork_project or 874-903 of
\* _resume_issue_processing (whose "except" of line 905 only returns)
FinishTransfer ==
    /\ pc = "finish"
    /\ \E ok \in BOOLEAN, t \in Timestamps :
        IF FinishError # ""
        THEN /\ sessions' = sessions
             /\ now' = now
             /\ IF mode = "fork"
                THEN /\ pc' = "handler"
                     /\ err' = FinishError
                     /\ run' = [run EXCEPT !.raisedIn = "issue transfer",
                                            !.relations = RelationsCall(issue_mapping)]
                     /\ lastResult' = lastResult
                ELSE /\ pc' = "idle"
                     /\ err' = ""
                     /\ run' = [run EXCEPT !.raisedIn = "issue transfer",
                                            !.relations = RelationsCall(issue_mapping)]
                     /\ lastResult' = SyncResult(mode, sync_id, FALSE, 0, FinishError)
        ELSE IF ok
        THEN /\ sessions' = complete_sync_session(sessions, sync_id, t)
             /\ now' = t
             /\ pc' = "idle"
             /\ err' = ""
             /\ run' = [run EXCEPT !.relations = RelationsCall(issue_mapping)]
             /\ lastResult' = SyncResult(mode, sync_id, TRUE, issues_processed, "")
        ELSE /\ sessions' = sessions
             /\ now' = now
             /\ IF mode = "fork"
                THEN /\ pc' = "handler"
                     /\ err' = "sqlite3.OperationalError"
                     /\ lastResult' = lastResult
                ELSE /\ pc' = "idle"
                     /\ err' = ""
                     /\ lastResult' = SyncResult(mode, sync_id, FALSE, 0,
                                                 "sqlite3.OperationalError")
             /\ run' = [run EXCEPT !.fault = TRUE, !.raisedIn = "session completion",
                                    !.relations = RelationsCall(issue_mapping)]
    /\ UNCHANGED <<config, checkpoints, issue_mappings, destIssues,
                   engineReady, forked, resumes, mode, sync_id, start_from,
                   issues, start_index, i, cpDone, issue_mapping,
                   issues_processed, attempted, mapvars, funvars>>

\* the handler leaves the session as it is
fail_session_in_handler_skip(S, id, msg, t) == S

\* line 165: self.state_manager.fail_sync_session(sync_id, str(e))
fail_session_in_handler(S, id, msg, t) == fail_sync_session(S, id, msg, t)

\* fork_project, lines 161-173: "except Exception"
ForkHandler ==
    /\ pc = "handler"
    /\ pc' = "idle"
    /\ \E ok \in BOOLEAN, t \in Timestamps :
        IF ok
        THEN /\ sessions' = fail_session_in_handler(sessions, sync_id, err, t)
             /\ now' = t
             /\ lastResult' = SyncResult("fork", sync_id, FALSE, 0, err)
             /\ run' = run
        ELSE /\ sessions' = sessions
             /\ now' = now
             /\ lastResult' = Raised("fork", sync_id, "sqlite3.OperationalError")
             /\ run' = [run EXCEPT !.fault = TRUE]
    /\ UNCHANGED <<config, checkpoints, issue_mappings, destIssues,
                   engineReady, forked, resumes, locals, attempted, mapvars, funvars>>

\* resume_sync, lines 280-296, and _resume_issue_processing, lines 858-872:
\* the exception raised before the transfer loop is entered, "" when none;
\* cp is the row get_last_checkpoint returned, 0 when it returned None
ResumeError(id, storeOk, cp) ==
    IF ~storeOk THEN "sqlite3.OperationalError"
    ELSE IF id \notin DOMAIN sessions THEN "Sync session not found"
    ELSE IF sessions[id].status = "completed" THEN "Sync session already completed"
    ELSE IF cp = 0 THEN "'NoneType' object is not subscriptable"
    ELSE IF checkpoints[cp].phase # "issue_processing" THEN "Cannot resume from phase"
    ELSE IF NoAttribute("get_project_analysis") # "" THEN NoAttribute("get_project_analysis")
    ELSE ""

\* the blocks mark the session failed, as the one of fork_project does
ResumeExcept_fail(S, id, msg) == fail_sync_session(S, id, msg, now)

\* what the "except Exception" blocks of resume_sync (line 298) and of
\* _resume_issue_processing (line 905) do to the session table
ResumeExcept(S, id, msg) == S

\* the blocks report success
ResumeFailure_success(id, msg) == SyncResult("resume", id, TRUE, 0, msg)

\* the blocks catch SyncError only, any other exception leaves resume_sync
ResumeFailure_reraise(id, msg) ==
    IF msg \in {"Sync session not found", "Sync session already completed",
                "Cannot resume from phase"}
    THEN SyncResult("resume", id, FALSE, 0, msg)
    ELSE Raised("resume", id, msg)

\* the result those blocks return
ResumeFailure(id, msg) == SyncResult("resume", id, FALSE, 0, msg)

\* resume_sync, lines 276-306, with _resume_issue_processing up to the loop;
\* fresh: the engine was constructed for this call (main.py, line 231), else
\* it is the engine of the previous operation
ResumeSync(id, fresh) ==
    /\ pc = "idle"
    /\ resumes < MaxResumes
    /\ \E storeOk \in BOOLEAN,
          cp \in (IF get_last_checkpoint(checkpoints, id) = {} THEN {0}
                  ELSE get_last_checkpoint(checkpoints, id)) :
        LET e == ResumeError(id, storeOk, cp)
            target == IF id \in DOMAIN sessions THEN sessions[id].status ELSE "missing"
            history == [NoRun EXCEPT !.before = Snapshot, !.target = target,
                                     !.checkpoint = IF cp = 0 THEN "none"
                                                    ELSE checkpoints[cp].phase,
                                     !.fault = ~storeOk,
                                     !.afterInterrupt =
                                         /\ lastResult.kind = "none"
                                         /\ target = "running"]
        IN  IF e # ""
            THEN /\ sessions' = ResumeExcept(sessions, id, e)
                 /\ resumes' = resumes
                 /\ lastResult' = ResumeFailure(id, e)
                 /\ run' = history
                 /\ pc' = "idle"
                 /\ ResetLocals
            ELSE /\ sessions' = sessions
                 /\ resumes' = resumes + 1
                 /\ lastResult' = NoResult
                 /\ run' = history
                 /\ mode' = "resume"
                 /\ sync_id' = id
                 /\ start_from' = checkpoints[cp].data.last_processed_issue
                 /\ issues' = get_issues_in_order(source)
                 /\ start_index' = StartIndex(issues', start_from')
                 /\ i' = start_index'
                 /\ cpDone' = FALSE
                 /\ issue_mapping' = <<>>
                 /\ issues_processed' = 0
                 /\ err' = ""
                 /\ pc' = LoopNext(issues', i')
    /\ engineReady' = IF fresh THEN FALSE ELSE engineReady
    /\ UNCHANGED <<config, now, checkpoints, issue_mappings, destIssues, forked,
                   attempted, mapvars, funvars>>

\* a process-level interrupt (KeyboardInterrupt is no Exception, no handler
\* of the engine catches it): the engine object and whatever it was doing
\* are lost, the store and the destination are kept
Crash ==
    /\ pc # "idle"
    /\ pc' = "idle"
    /\ engineReady' = FALSE
    /\ ResetLocals
    /\ lastResult' = NoResult
    /\ run' = NoRun
    /\ UNCHANGED <<config, now, durable, forked, resumes, attempted, mapvars, funvars>>

\* the dry run opens a session as fork_project does
DryRunSessions_create(S, id) == create_sync_session(S, id)

\* dry_run_fork, lines 175-227: no call of the state manager, the session
\* table is left as it is
DryRunSessions(S, id) == S

\* dry_run_fork, lines 175-227: _analyze_source_project (lines 308-357, GET
\* requests to the source and _detect_issue_gaps) and the estimate; "except
\* Exception" returns the failure
DryRunFork ==
    /\ pc = "idle"
    /\ \E o \in {"ok", "analysis"} :
        lastResult' = IF o = "ok"
                      THEN SyncResult("dry_run", "dry-run-uuid", TRUE,
                                      Cardinality(source), "")
                      ELSE SyncResult("dry_run", "dry-run-uuid", FALSE, 0,
                                      PhaseError(o))
    /\ sessions' = DryRunSessions(sessions, "dry-run-uuid")
    /\ run' = [NoRun EXCEPT !.before = Snapshot, !.target = "dry run"]
    /\ ResetLocals
    /\ UNCHANGED <<config, now, checkpoints, issue_mappings, destIssues,
                   engineReady, forked, resumes, pc, attempted, mapvars, funvars>>

\* without a previous sync everything is taken as changed
IncrementalError_full(storeOk, completed) ==
    IF ~storeOk THEN "sqlite3.OperationalError" ELSE ""

\* incremental_sync, lines 237-240: the exception raised before the changes
\* are looked for, "" when get_last_successful_sync returned a row
IncrementalError(storeOk, completed) ==
    IF ~storeOk THEN "sqlite3.OperationalError"
    ELSE IF completed = {} THEN "No previous sync found for incremental update"
    ELSE ""

\* incremental_sync, lines 229-274: get_last_successful_sync (utils, lines
\* 167-178) selects the sessions of status 'completed'; with a row,
\* _process_incremental_changes (lines 811-850) stops at get_issue_mapping,
\* returns 0, and the result is a success with no change processed
IncrementalSync ==
    /\ pc = "idle"
    /\ \E storeOk \in BOOLEAN :
        LET completed == {id \in DOMAIN sessions : sessions[id].status = "completed"}
            e == IncrementalError(storeOk, completed)
        IN  /\ lastResult' = SyncResult("incremental", "uuid-incremental",
                                        e = "", 0, e)
            /\ run' = [NoRun EXCEPT !.before = Snapshot,
                                    !.fault = ~storeOk,
                                    !.target = IF completed = {}
                                               THEN "no completed session"
                                               ELSE "completed session"]
    /\ ResetLocals
    /\ UNCHANGED <<config, now, durable, engineReady, forked, resumes, pc,
                   attempted, mapvars, funvars>>

Next ==
    \/ \E from \in {0} \cup IssueNums : ForkProject(from)
    \/ DryRunFork
    \/ IncrementalSync
    \/ RunPhases
    \/ CreateCheckpoint
    \/ ProcessSingleIssue
    \/ FinishTransfer
    \/ ForkHandler
    \/ \E id \in ResumeIds, fresh \in {TRUE, ~engineReady} : ResumeSync(id, fresh)
    \/ Crash

Spec == Init /\ [][Next]_vars

\* ---- schema mapping ----
\* The vocabularies the functions are applied to. A destination entity is
\* modelled by its name; its id is its position in the received list.
IssueTypeNames == {"Task", "task", "Bug", "Story", "User Story", "Feature"}
StatusNames == {"Backlog", "Open", "To Do", "TO DO", "Closed", "On Hold"}
LinkTypeNames == {"Relates", "relates to", "Blocks", "blocking", "Blocked", "Cloners"}

Categories == {"issue_type", "status", "link_type"}

Names(cat) ==
    CASE cat = "issue_type" -> IssueTypeNames
      [] cat = "status" -> StatusNames
      [] OTHER -> LinkTypeNames

\* str.lower() on the names of the vocabularies
lower(name) ==
    CASE name = "Task" -> "task"
      [] name = "Bug" -> "bug"
      [] name = "Story" -> "story"
      [] name = "User Story" -> "user story"
      [] name = "Feature" -> "feature"
      [] name = "Backlog" -> "backlog"
      [] name = "Open" -> "open"
      [] name = "To Do" -> "to do"
      [] name = "TO DO" -> "to do"
      [] name = "Closed" -> "closed"
      [] name = "On Hold" -> "on hold"
      [] name = "Relates" -> "relates"
      [] name = "Blocks" -> "blocks"
      [] name = "Blocked" -> "blocked"
      [] name = "Cloners" -> "cloners"
      [] OTHER -> name

\* "keyword in name": the substring test of Python, on the lower-cased names
\* of the vocabularies and the keywords of the code
Contains(keyword, name) ==
    \/ keyword = name
    \/ <<keyword, name>> \in {<<"story", "user story">>}

\* the value no dict entry has: the function leaves the name out of the dict
NoEntry == 0

\* {t['name'].lower(): t['id'] for t in dest_types}: a later entity of the
\* same lower-cased name replaces the earlier one
DestMap(dest) ==
    [l \in {lower(dest[k]) : k \in DOMAIN dest} |->
        CHOOSE k \in DOMAIN dest :
            /\ lower(dest[k]) = l
            /\ \A j \in DOMAIN dest : lower(dest[j]) = l => j <= k]

\* the last resort is left out
FirstEntity_none(dest) == NoEntry

\* dest_types[0]['id'] under "elif dest_types" / "if dest_statuses"
FirstEntity(dest) == IF dest = <<>> THEN NoEntry ELSE 1

\* line 417
common_types == <<"epic", "story", "task", "sub-task", "bug">>

\* the default is another common type
DefaultIssueType_bug == "bug"

\* lines 435-437: "Default to Task if no mapping found"
DefaultIssueType == "task"

\* _create_issue_type_mapping, lines 419-440: the entry of one source type
IssueTypeFor(source_type, dest) ==
    LET source_type_lower == lower(source_type)
        dest_type_map == DestMap(dest)
        hits == {c \in DOMAIN common_types :
                    /\ Contains(common_types[c], source_type_lower)
                    /\ common_types[c] \in DOMAIN dest_type_map}
    IN  IF source_type_lower \in DOMAIN dest_type_map
        THEN dest_type_map[source_type_lower]
        ELSE IF hits # {} THEN dest_type_map[common_types[Min(hits)]]
        ELSE IF DefaultIssueType \in DOMAIN dest_type_map
        THEN dest_type_map[DefaultIssueType]
        ELSE FirstEntity(dest)

\* lines 452-456, in the order of the dict
status_categories ==
    <<[category |-> "to do",
       keywords |-> {"backlog", "open", "to do", "todo", "new", "requirements",
                     "planning"}],
      [category |-> "in progress",
       keywords |-> {"in progress", "development", "coding", "review", "testing",
                     "qa", "verification"}],
      [category |-> "done",
       keywords |-> {"done", "closed", "resolved", "complete", "finished",
                     "released", "production"}]>>

\* _create_status_mapping, lines 458-476: the entry of one source status
StatusFor(source_status, dest) ==
    LET source_status_lower == lower(source_status)
        dest_status_map == DestMap(dest)
        hits == {c \in DOMAIN status_categories :
                    /\ \E keyword \in status_categories[c].keywords :
                           Contains(keyword, source_status_lower)
                    /\ status_categories[c].category \in DOMAIN dest_status_map}
    IN  IF source_status_lower \in DOMAIN dest_status_map
        THEN dest_status_map[source_status_lower]
        ELSE IF hits # {}
        THEN dest_status_map[status_categories[Min(hits)].category]
        ELSE FirstEntity(dest)

\* link_mapper.py, lines 14-31, in the order of the dict
STANDARD_LINK_TYPES ==
    <<[standard |-> "relates to", alternatives |-> <<"related to", "relates", "related">>],
      [standard |-> "blocks", alternatives |-> <<"blocking", "blocks", "blocked">>],
      [standard |-> "is blocked by", alternatives |-> <<"blocked by", "is blocked", "depends on">>],
      [standard |-> "causes", alternatives |-> <<"causes", "caused", "cause">>],
      [standard |-> "is caused by", alternatives |-> <<"caused by", "effect of", "result of">>],
      [standard |-> "clones", alternatives |-> <<"clone", "cloned from", "duplicate">>],
      [standard |-> "is cloned by", alternatives |-> <<"cloned by", "cloned to", "duplicated by">>],
      [standard |-> "duplicates", alternatives |-> <<"duplicate of", "same as">>],
      [standard |-> "is duplicated by", alternatives |-> <<"duplicated by", "copied from">>],
      [standard |-> "parent", alternatives |-> <<"parent of", "parent task">>],
      [standard |-> "child", alternatives |-> <<"child of", "subtask of">>],
      [standard |-> "depends on", alternatives |-> <<"dependency", "dependent on">>],
      [standard |-> "is required for", alternatives |-> <<"required for", "required by">>],
      [standard |-> "follows", alternatives |-> <<"follows after", "successor of">>],
      [standard |-> "precedes", alternatives |-> <<"precedes", "predecessor of">>]>>

\* get_available_link_types, lines 134-149: the keys of the dict
\* {lt['name'].lower(): lt['id']}, in insertion order
get_available_link_types(dest) ==
    LET firsts == {k \in DOMAIN dest :
                      \A j \in DOMAIN dest : lower(dest[j]) = lower(dest[k]) => k <= j}
    IN  [n \in 1..Cardinality(firsts) |-> lower(dest[Ascending(firsts)[n]])]

\* create_link_type_mapping, lines 166-205: the entry of one source type, a
\* link type name; "" when the function logs the error and adds no entry
LinkTypeFor(source_type, dest_types) ==
    LET source_type_lower == lower(source_type)
        dest_types_lower == Range(dest_types)
        Offers(g) ==
            \/ STANDARD_LINK_TYPES[g].standard \in dest_types_lower
            \/ \E a \in DOMAIN STANDARD_LINK_TYPES[g].alternatives :
                   STANDARD_LINK_TYPES[g].alternatives[a] \in dest_types_lower
        hits == {g \in DOMAIN STANDARD_LINK_TYPES :
                    /\ \/ source_type_lower = STANDARD_LINK_TYPES[g].standard
                       \/ source_type_lower \in Range(STANDARD_LINK_TYPES[g].alternatives)
                    /\ Offers(g)}
        group == STANDARD_LINK_TYPES[Min(hits)]
    IN  IF source_type_lower \in dest_types_lower THEN source_type
        ELSE IF hits # {}
        THEN IF group.standard \in dest_types_lower THEN group.standard
             ELSE group.alternatives[Min({a \in DOMAIN group.alternatives :
                                             group.alternatives[a] \in dest_types_lower})]
        ELSE IF "relates to" \in dest_types_lower THEN "relates to"
        ELSE IF dest_types # <<>> THEN dest_types[1]
        ELSE ""

\* the arguments: at most MaxSourceNames source names and a list of at most
\* MaxDestEntities destination entities, whose names Jira keeps distinct
\* whatever their case
MapInit ==
    /\ source = {}
    /\ batch_size = 1
    /\ now = 1
    /\ sessions = <<>>
    /\ checkpoints = <<>>
    /\ destIssues = <<>>
    /\ issue_mappings = {}
    /\ engineReady = FALSE
    /\ forked = FALSE
    /\ resumes = 0
    /\ pc = "idle"
    /\ mode = "none"
    /\ sync_id = ""
    /\ start_from = 0
    /\ issues = <<>>
    /\ start_index = 0
    /\ i = 0
    /\ cpDone = FALSE
    /\ issue_mapping = <<>>
    /\ issues_processed = 0
    /\ err = ""
    /\ lastResult = NoResult
    /\ run = NoRun
    /\ attempted = {}
    /\ category \in Categories
    /\ source_names \in {S \in SUBSET Names(category) : Cardinality(S) <= MaxSourceNames}
    /\ dest_names \in {d \in UNION {[1..n -> Names(category)] : n \in 0..MaxDestEntities} :
                          \A a, b \in DOMAIN d : a # b => lower(d[a]) # lower(d[b])}
    /\ mapping = <<>>
    /\ mapped = FALSE
    /\ GapIdle
    /\ TextIdle
    /\ TypeIdle
    /\ LinkIdle
    /\ IssueIdle
    /\ IncrementalIdle

\* _create_issue_type_mapping, lines 409-442
CreateIssueTypeMapping ==
    /\ category = "issue_type"
    /\ ~mapped
    /\ mapped' = TRUE
    /\ mapping' = [n \in {m \in source_names : IssueTypeFor(m, dest_names) # NoEntry} |->
                       IssueTypeFor(n, dest_names)]
    /\ UNCHANGED <<enginevars, category, source_names, dest_names, funvars>>

\* _create_status_mapping, lines 444-478
CreateStatusMapping ==
    /\ category = "status"
    /\ ~mapped
    /\ mapped' = TRUE
    /\ mapping' = [n \in {m \in source_names : StatusFor(m, dest_names) # NoEntry} |->
                       StatusFor(n, dest_names)]
    /\ UNCHANGED <<enginevars, category, source_names, dest_names, funvars>>

\* create_link_type_mapping, lines 151-207, on the dict that
\* get_available_link_types built (sync/__init__.py, lines 396 and 683)
CreateLinkTypeMapping ==
    /\ category = "link_type"
    /\ ~mapped
    /\ mapped' = TRUE
    /\ mapping' = [n \in {m \in source_names : LinkTypeFor(m, get_available_link_types(dest_names)) # ""} |->
                       LinkTypeFor(n, get_available_link_types(dest_names))]
    /\ UNCHANGED <<enginevars, category, source_names, dest_names, funvars>>

MapNext ==
    \/ CreateIssueTypeMapping
    \/ CreateStatusMapping
    \/ CreateLinkTypeMapping

MappingSpec == MapInit /\ [][MapNext]_vars

\* ---- functions applied on their own ----
\* the engine as it is while none of its operations runs, on an empty
\* source project; ready: the mappings of the setup are set, im: the issue
\* mapping a transfer has built, S and rows: the tables sync_sessions and
\* issue_mappings of the store
EngineOverStore(ready, im, S, rows) ==
    /\ source = {}
    /\ batch_size = 1
    /\ now = 1
    /\ sessions = S
    /\ checkpoints = <<>>
    /\ destIssues = <<>>
    /\ issue_mappings = rows
    /\ engineReady = ready
    /\ forked = FALSE
    /\ resumes = 0
    /\ pc = "idle"
    /\ mode = "none"
    /\ sync_id = ""
    /\ start_from = 0
    /\ issues = <<>>
    /\ start_index = 0
    /\ i = 0
    /\ cpDone = FALSE
    /\ issue_mapping = im
    /\ issues_processed = 0
    /\ err = ""
    /\ lastResult = NoResult
    /\ run = NoRun
    /\ attempted = {}

\* the same on an empty store
EngineIdleWith(ready, im) == EngineOverStore(ready, im, <<>>, {})

\* a newly constructed engine, lines 78-91
EngineIdle == EngineIdleWith(FALSE, <<>>)

\* ---- gap detection ----
MaxKeyNum == 5
MaxKeys == 4

\* a key whose part after the '-' is no integer: int() raises ValueError
Unparsable == 0

\* lines 557-564: the numbers of the keys that parse, in the order received
ParseNumbers(keys) ==
    LET Parses(k) == k # Unparsable
    IN  SelectSeq(keys, Parses)

\* line 570, issue_numbers.sort(): ascending, duplicates kept
RECURSIVE SortNumbers(_)
SortNumbers(nums) ==
    IF nums = <<>> THEN <<>>
    ELSE LET m == Min(Range(nums))
             k == Min({j \in DOMAIN nums : nums[j] = m})
         IN  <<m>> \o SortNumbers(SubSeq(nums, 1, k - 1)
                                     \o SubSeq(nums, k + 1, Len(nums)))

\* every pair of neighbours that are not consecutive numbers is a gap
IsGap_not_one(current, next_num) == next_num - current # 1

\* line 577: "if next_num - current > 1"
IsGap(current, next_num) == next_num - current > 1

\* lines 573-582: one IssueGap for each pair of neighbours more than 1 apart
RECURSIVE GapsFrom(_, _)
GapsFrom(nums, k) ==
    IF k >= Len(nums) THEN <<>>
    ELSE (IF IsGap(nums[k], nums[k + 1])
          THEN <<[start_number |-> nums[k] + 1, end_number |-> nums[k + 1] - 1,
                  reason |-> "deleted_or_missing"]>>
          ELSE <<>>) \o GapsFrom(nums, k + 1)

\* _detect_issue_gaps, lines 548-588, on the keys the source returned
detect_issue_gaps(keys) ==
    IF ParseNumbers(keys) = <<>> THEN <<>>
    ELSE GapsFrom(SortNumbers(ParseNumbers(keys)), 1)

\* the answer of get_all_issue_keys: at most MaxKeys keys in any order,
\* duplicates allowed
GapInit ==
    /\ EngineIdle
    /\ MapIdle
    /\ TextIdle
    /\ TypeIdle
    /\ LinkIdle
    /\ IssueIdle
    /\ IncrementalIdle
    /\ issue_keys \in UNION {[1..n -> {Unparsable} \cup (1..MaxKeyNum)] : n \in 0..MaxKeys}
    /\ gaps = <<>>
    /\ gaps_detected = FALSE

DetectIssueGaps ==
    /\ ~gaps_detected
    /\ gaps_detected' = TRUE
    /\ gaps' = detect_issue_gaps(issue_keys)
    /\ UNCHANGED <<enginevars, issuevars, incvars, mapvars, textvars, typevars, linkvars, issue_keys>>

GapNext == DetectIssueGaps

GapSpec == GapInit /\ [][GapNext]_vars

\* ---- content handling ----
\* A str is modelled by the sequence of its characters, an argument or a
\* result by a record that carries its Python type.
MaxSummaryLen == 257
MaxTextLen == 4

\* content_handler.py, lines 15 and 17
MAX_DESCRIPTION_LENGTH == 32767
MAX_SUMMARY_LENGTH == 255

None == [type |-> "NoneType"]
Str(chars) == [type |-> "str", value |-> chars]
Dict(d) == [type |-> "dict", value |-> d]

Repeat(c, n) == [k \in 1..n |-> c]

\* "No summary provided", line 30
NoSummary ==
    <<"N", "o", " ", "s", "u", "m", "m", "a", "r", "y", " ",
      "p", "r", "o", "v", "i", "d", "e", "d">>

\* "No description provided.", line 52
NoDescription ==
    <<"N", "o", " ", "d", "e", "s", "c", "r", "i", "p", "t", "i", "o", "n", " ",
      "p", "r", "o", "v", "i", "d", "e", "d", ".">>

\* "\n\n[Content truncated due to size limits]", line 65
TruncationNotice ==
    <<"\n", "\n", "[", "C", "o", "n", "t", "e", "n", "t", " ",
      "t", "r", "u", "n", "c", "a", "t", "e", "d", " ", "d", "u", "e", " ",
      "t", "o", " ", "s", "i", "z", "e", " ", "l", "i", "m", "i", "t", "s", "]">>

\* "not x" of Python on None and on a str
Falsy(x) == x.type = "NoneType" \/ (x.type = "str" /\ x.value = <<>>)

\* the indicator is appended to the first 255 characters
truncate_summary_append(summary) ==
    IF Falsy(summary) THEN NoSummary
    ELSE IF Len(summary.value) <= MAX_SUMMARY_LENGTH THEN summary.value
    ELSE SubSeq(summary.value, 1, MAX_SUMMARY_LENGTH) \o <<".", ".", ".">>

\* truncate_summary, lines 19-38
truncate_summary(summary) ==
    IF Falsy(summary) THEN NoSummary
    ELSE IF Len(summary.value) <= MAX_SUMMARY_LENGTH THEN summary.value
    ELSE SubSeq(summary.value, 1, MAX_SUMMARY_LENGTH - 3) \o <<".", ".", ".">>

\* str.split(sep) for the separators of lines 107 and 118: the pieces
\* between the occurrences of sep found from left to right
RECURSIVE split(_, _)
split(text, sep) ==
    LET at == {k \in 1..(Len(text) - Len(sep) + 1) :
                  SubSeq(text, k, k + Len(sep) - 1) = sep}
    IN  IF at = {} THEN <<text>>
        ELSE <<SubSeq(text, 1, Min(at) - 1)>>
             \o split(SubSeq(text, Min(at) + Len(sep), Len(text)), sep)

\* "not para.strip()": the paragraph holds white space only
Blank(para) == \A k \in DOMAIN para : para[k] \in {" ", "\n"}

\* lines 121-125: a text node for each line, a hardBreak between two lines
RECURSIVE para_content(_, _)
para_content(lines, k) ==
    IF k > Len(lines) THEN <<>>
    ELSE <<[type |-> "text", text |-> lines[k]]>>
         \o (IF k < Len(lines) THEN <<[type |-> "hardBreak"]>> ELSE <<>>)
         \o para_content(lines, k + 1)

\* lines 113-134: the paragraph nodes of the paragraphs from index k on
RECURSIVE paragraph_nodes(_, _)
paragraph_nodes(paragraphs, k) ==
    IF k > Len(paragraphs) THEN <<>>
    ELSE (IF Blank(paragraphs[k]) THEN <<>>
          ELSE <<[type |-> "paragraph",
                  content |-> para_content(split(paragraphs[k], <<"\n">>), 1)]>>)
         \o paragraph_nodes(paragraphs, k + 1)

\* create_adf_document, lines 96-141
create_adf_document(text) ==
    [version |-> 1, type |-> "doc",
     content |-> paragraph_nodes(split(text, <<"\n", "\n">>), 1)]

\* format_description_for_cloud, lines 40-68
format_description_for_cloud(description) ==
    IF Falsy(description) THEN create_adf_document(NoDescription)
    ELSE IF description.type = "dict" /\ description.value.type = "doc"
    THEN description.value
    ELSE IF Len(description.value) > MAX_DESCRIPTION_LENGTH
    THEN create_adf_document(
             SubSeq(description.value, 1, MAX_DESCRIPTION_LENGTH - 100)
             \o TruncationNotice)
    ELSE create_adf_document(description.value)

\* documents in the format of the destination, as an issue read from a
\* Jira Cloud source carries them
StructuredDocuments ==
    {[version |-> 1, type |-> "doc", content |-> <<>>],
     [version |-> 1, type |-> "doc",
      content |-> <<[type |-> "paragraph",
                     content |-> <<[type |-> "text", text |-> <<"a">>]>>]>>]}

\* the summaries: absent, or up to MaxSummaryLen times the same character
Summaries ==
    {None} \cup {Str(Repeat(c, n)) : c \in {"a", "."}, n \in 0..MaxSummaryLen}

\* the descriptions: absent, every text of at most MaxTextLen characters
\* and newlines, a text at the limit and one past it, and structured
\* documents
Descriptions ==
    {None}
    \cup {Str(t) : t \in UNION {[1..n -> {"a", " ", "\n"}] : n \in 0..MaxTextLen}}
    \cup {Str(Repeat("a", n)) : n \in {MAX_DESCRIPTION_LENGTH, MAX_DESCRIPTION_LENGTH + 1}}
    \cup {Dict(d) : d \in StructuredDocuments}

TextInit ==
    /\ EngineIdle
    /\ MapIdle
    /\ GapIdle
    /\ TypeIdle
    /\ LinkIdle
    /\ IssueIdle
    /\ IncrementalIdle
    /\ text_fn \in {"truncate_summary", "format_description_for_cloud"}
    /\ text_arg \in (IF text_fn = "truncate_summary" THEN Summaries ELSE Descriptions)
    /\ text_out = None
    /\ text_again = None
    /\ text_calls = 0

\* _process_single_issue, line 938
TruncateSummary ==
    /\ text_fn = "truncate_summary"
    /\ text_calls = 0
    /\ text_calls' = 1
    /\ text_out' = Str(truncate_summary(text_arg))
    /\ UNCHANGED <<enginevars, issuevars, incvars, mapvars, gapvars, typevars, linkvars, text_fn, text_arg, text_again>>

\* sanitize_issue_data, line 194, called at line 952 of _process_single_issue
\* on the summary line 938 has truncated
TruncateSummaryAgain ==
    /\ text_fn = "truncate_summary"
    /\ text_calls = 1
    /\ text_calls' = 2
    /\ text_again' = Str(truncate_summary(text_out))
    /\ UNCHANGED <<enginevars, issuevars, incvars, mapvars, gapvars, typevars, linkvars, text_fn, text_arg, text_out>>

\* merge_descriptions, line 163, called at line 946 of _process_single_issue
FormatDescription ==
    /\ text_fn = "format_description_for_cloud"
    /\ text_calls = 0
    /\ text_calls' = 1
    /\ text_out' = Dict(format_description_for_cloud(text_arg))
    /\ UNCHANGED <<enginevars, issuevars, incvars, mapvars, gapvars, typevars, linkvars, text_fn, text_arg, text_again>>

TextNext ==
    \/ TruncateSummary
    \/ TruncateSummaryAgain
    \/ FormatDescription

TextSpec == TextInit /\ [][TextNext]_vars

\* ---- issue type of an issue ----
MaxMetadataChanges == 1
MaxTypedIssues == 2

\* line 931: "10036", the id used when the lookup gave None
FallbackIssueTypeId == 10036

\* api/__init__.py, lines 254-258: what get_issue_types_for_project returns
\* when its request fails
DefaultIssueTypes ==
    <<[id |-> 10000, name |-> "Epic"], [id |-> 10001, name |-> "Task"],
      [id |-> 10002, name |-> "Sub-task"]>>

\* the issue type names the issues of the source carry
SourceIssueTypes == {"Task", "Bug", "Story"}

\* lines 922-932: the id put in the payload of an issue of type name, given
\* self.issue_type_mapping and the list get_issue_types_for_project
\* returned for this issue; the default of dict.get is the id of the first
\* type named 'Task', None without one
issue_type_id(name, issue_type_mapping, types) ==
    LET tasks == {k \in DOMAIN types : types[k].name = "Task"}
        default == IF tasks = {} THEN NoEntry ELSE types[Min(tasks)].id
        got == IF name \in DOMAIN issue_type_mapping
               THEN issue_type_mapping[name] ELSE default
    IN  IF got = NoEntry THEN FallbackIssueTypeId ELSE got

\* the setup (lines 373-402) is about to build the mapping from the keys of
\* analysis['issue_types'], the types get_issue_statistics counted (api,
\* lines 76-88, which leaves out a type whose count request was refused),
\* and from the issue types of the destination, at least one, whose ids
\* are their positions in dest_names
TypeInit ==
    /\ EngineIdle
    /\ GapIdle
    /\ TextIdle
    /\ LinkIdle
    /\ IssueIdle
    /\ IncrementalIdle
    /\ category = "issue_type"
    /\ source_names \in {S \in SUBSET SourceIssueTypes : Cardinality(S) <= MaxSourceNames}
    /\ dest_names \in {d \in UNION {[1..n -> IssueTypeNames] : n \in 1..MaxDestEntities} :
                          \A a, b \in DOMAIN d : a # b => lower(d[a]) # lower(d[b])}
    /\ mapping = <<>>
    /\ mapped = FALSE
    /\ live_types = [k \in DOMAIN dest_names |-> [id |-> k, name |-> dest_names[k]]]
    /\ metadata_changes = 0
    /\ type_used = <<>>

\* an administrator of the destination deletes an issue type, or adds one
\* named 'Task', while the transfer runs
ChangeMetadata ==
    /\ mapped
    /\ metadata_changes < MaxMetadataChanges
    /\ metadata_changes' = metadata_changes + 1
    /\ \/ \E k \in DOMAIN live_types :
             live_types' = SubSeq(live_types, 1, k - 1)
                           \o SubSeq(live_types, k + 1, Len(live_types))
       \/ live_types' = Append(live_types,
                               [id |-> Len(dest_names) + metadata_changes + 1,
                                name |-> "Task"])
    /\ UNCHANGED <<enginevars, issuevars, incvars, mapvars, gapvars, textvars, linkvars, type_used>>

\* _process_single_issue, lines 920-940, for an issue of type name; ok: the
\* request of get_issue_types_for_project was answered
DecideIssueType(name, ok) ==
    /\ mapped
    /\ Len(type_used) < MaxTypedIssues
    /\ type_used' = Append(type_used,
                           [name |-> name,
                            id |-> issue_type_id(name, mapping,
                                       IF ok THEN live_types ELSE DefaultIssueTypes)])
    /\ UNCHANGED <<enginevars, issuevars, incvars, mapvars, gapvars, textvars, linkvars,
                   live_types, metadata_changes>>

TypeNext ==
    \/ CreateIssueTypeMapping
    \/ ChangeMetadata
    \/ \E name \in SourceIssueTypes, ok \in BOOLEAN : DecideIssueType(name, ok)

TypeSpec == TypeInit /\ [][TypeNext]_vars

\* ---- relationship synchronization ----
MaxLinks == 2
MaxEpicLinks == 1

\* the issue mapping the transfer built: P-1 and P-2 were created, P-3 failed;
\* the destination numbers its issues on its own
MappedIssues == [k \in {1, 2} |-> k + MaxIssueNum]

\* the entries get_all_issue_links (api, lines 392-426) can return for the
\* mapped keys: the link of P-1 with a mapped or an unmapped issue
LinkEntries ==
    {[source_issue |-> 1, target_issue |-> t, link_type |-> n] :
        t \in {2, 3}, n \in {"Blocks", "blocking", "Cloners"}}

\* the entries get_all_epic_links (api, lines 428-469) can return
EpicEntries == {[epic_key |-> 2, issue_key |-> k] : k \in {1, 3}}

\* the link types get_issue_link_types may list for the destination
LinkDestinations ==
    {<<>>, <<"relates to">>, <<"Blocks">>, <<"Blocks", "relates to">>,
     <<"Cloners", "blocking">>}

\* link_type_mapping.get(link_type), line 694: "" stands for None
mapped_link_type(link_type, link_type_mapping) ==
    IF link_type \in DOMAIN link_type_mapping THEN link_type_mapping[link_type]
    ELSE ""

\* create_fallback_link, link_mapper.py lines 238-271: the link type names
\* it called create_issue_link with, and what it returned; ok1, ok2: the
\* first, the second call returned
create_fallback_link(available_types, ok1, ok2) ==
    LET relates == IF "relates to" \in Range(available_types)
                   THEN <<"relates to">> ELSE <<>>
    IN  IF relates # <<>> /\ ok1
        THEN [attempts |-> relates, created |-> TRUE]
        ELSE IF available_types # <<>>
        THEN [attempts |-> relates \o <<available_types[1]>>,
              created |-> IF relates = <<>> THEN ok1 ELSE ok2]
        ELSE [attempts |-> relates, created |-> FALSE]

\* the link type of the source is sent instead of the mapped one
LinkTypeToCreate_source(link_type, mapped_type) == link_type

\* line 700: the third argument of create_issue_link
LinkTypeToCreate(link_type, mapped_type) == mapped_type

\* a link type that is not the one of the source is counted as failed
LinkOutcome_direct(link, im, link_type_mapping, available_types, ok1, ok2) ==
    LET m == mapped_link_type(link.link_type, link_type_mapping)
    IN  IF link.source_issue \notin DOMAIN im \/ link.target_issue \notin DOMAIN im
        THEN [attempts |-> <<>>, outcome |-> "skipped"]
        ELSE IF m = link.link_type
        THEN [attempts |-> <<m>>, outcome |-> IF ok1 THEN "created" ELSE "failed"]
        ELSE [attempts |-> <<>>, outcome |-> "failed"]

\* lines 687-720, one entry of the list: the link type names create_issue_link
\* was called with and what became of the entry
LinkOutcome(link, im, link_type_mapping, available_types, ok1, ok2) ==
    LET m == mapped_link_type(link.link_type, link_type_mapping)
        f == create_fallback_link(available_types, ok1, ok2)
    IN  IF link.source_issue \notin DOMAIN im \/ link.target_issue \notin DOMAIN im
        THEN [attempts |-> <<>>, outcome |-> "skipped"]
        ELSE IF m # ""
        THEN [attempts |-> <<LinkTypeToCreate(link.link_type, m)>>,
              outcome |-> IF ok1 THEN "created" ELSE "failed"]
        ELSE [attempts |-> f.attempts,
              outcome |-> IF f.created THEN "created" ELSE "failed"]

MappedKey_source(im, key) == key

\* lines 700-701, 710-711 and 735-736: the issue key given to the destination
MappedKey(im, key) == im[key]

CountAs_created(outcome, counter) ==
    IF outcome = "created" /\ counter = "created" THEN 1 ELSE 0

\* lines 704, 714, 716, 719, 738 and 742: what an entry adds to a counter
CountAs(outcome, counter) == IF outcome = counter THEN 1 ELSE 0

\* the loop that follows the entry of position pos of loop
AfterEntry(loop, pos) ==
    IF loop = "links" /\ pos < Len(links) THEN "links"
    ELSE IF loop = "links" /\ epics # <<>> THEN "epics"
    ELSE IF loop = "epics" /\ pos < Len(epics) THEN "epics"
    ELSE "returned"

\* _synchronize_relationships is about to be called with the issue mapping
\* of the transfer, by fork_project (line 132, after the setup) or by
\* _resume_issue_processing (line 875, perhaps of a new engine)
LinkInit ==
    /\ \E ready \in BOOLEAN : EngineIdleWith(ready, MappedIssues)
    /\ GapIdle
    /\ TextIdle
    /\ TypeIdle
    /\ IssueIdle
    /\ IncrementalIdle
    /\ category = "link_type"
    /\ source_names = {}
    /\ dest_names \in LinkDestinations
    /\ mapping = <<>>
    /\ mapped = FALSE
    /\ links \in UNION {[1..n -> LinkEntries] : n \in 0..MaxLinks}
    /\ epics \in UNION {[1..n -> EpicEntries] : n \in 0..MaxEpicLinks}
    /\ link_pc = "start"
    /\ link_pos = 0
    /\ links_created = 0
    /\ links_failed = 0
    /\ dest_links = <<>>
    /\ link_log = <<>>

\* lines 672-684: the link types of the fetched links and their mapping;
\* self.dest_link_types raises AttributeError on an engine that made no
\* setup, which the "except APIError" of line 750 does not catch
StartRelationships ==
    /\ link_pc = "start"
    /\ IF engineReady
       THEN /\ source_names' = {links[k].link_type : k \in DOMAIN links}
            /\ mapping' = [n \in {m \in source_names' :
                                     LinkTypeFor(m, get_available_link_types(dest_names)) # ""} |->
                               LinkTypeFor(n, get_available_link_types(dest_names))]
            /\ mapped' = TRUE
            /\ link_pc' = AfterEntry("links", 0)
       ELSE /\ link_pc' = "raised"
            /\ UNCHANGED <<source_names, mapping, mapped>>
    /\ UNCHANGED <<enginevars, issuevars, incvars, category, dest_names, gapvars, textvars, typevars,
                   links, epics, link_pos, links_created, links_failed,
                   dest_links, link_log>>

\* lines 686-720: one entry of links
SynchronizeLink ==
    /\ link_pc = "links"
    /\ \E ok1, ok2 \in BOOLEAN :
        LET link == links[link_pos + 1]
            o == LinkOutcome(link, issue_mapping, mapping,
                             get_available_link_types(dest_names), ok1, ok2)
        IN  /\ links_created' = links_created + CountAs(o.outcome, "created")
            /\ links_failed' = links_failed + CountAs(o.outcome, "failed")
            /\ dest_links' =
                   IF o.outcome = "created"
                   THEN Append(dest_links,
                               [inwardIssue |-> MappedKey(issue_mapping, link.source_issue),
                                outwardIssue |-> MappedKey(issue_mapping, link.target_issue),
                                type |-> o.attempts[Len(o.attempts)],
                                entry |-> <<"links", link_pos + 1>>])
                   ELSE dest_links
            /\ link_log' = Append(link_log,
                                  [loop |-> "links", index |-> link_pos + 1,
                                   attempts |-> o.attempts, oks |-> <<ok1, ok2>>,
                                   outcome |-> o.outcome])
    /\ link_pc' = AfterEntry("links", link_pos + 1)
    /\ link_pos' = IF link_pc' = "links" THEN link_pos + 1 ELSE 0
    /\ UNCHANGED <<enginevars, issuevars, incvars, mapvars, gapvars, textvars, typevars, links, epics>>

\* lines 722-744: one entry of epics; ok: create_epic_link returned
SynchronizeEpicLink ==
    /\ link_pc = "epics"
    /\ \E ok \in BOOLEAN :
        LET epic_link == epics[link_pos + 1]
            outcome == IF \/ epic_link.epic_key \notin DOMAIN issue_mapping
                          \/ epic_link.issue_key \notin DOMAIN issue_mapping
                       THEN "skipped"
                       ELSE IF ok THEN "created" ELSE "failed"
        IN  /\ links_created' = links_created + CountAs(outcome, "created")
            /\ links_failed' = links_failed + CountAs(outcome, "failed")
            /\ dest_links' =
                   IF outcome = "created"
                   THEN Append(dest_links,
                               [inwardIssue |-> MappedKey(issue_mapping, epic_link.epic_key),
                                outwardIssue |-> MappedKey(issue_mapping, epic_link.issue_key),
                                type |-> "epic",
                                entry |-> <<"epics", link_pos + 1>>])
                   ELSE dest_links
            /\ link_log' = Append(link_log,
                                  [loop |-> "epics", index |-> link_pos + 1,
                                   attempts |-> IF outcome = "skipped" THEN <<>>
                                                ELSE <<"epic">>,
                                   oks |-> <<ok, ok>>,
                                   outcome |-> outcome])
    /\ link_pc' = AfterEntry("epics", link_pos + 1)
    /\ link_pos' = IF link_pc' = "epics" THEN link_pos + 1 ELSE 0
    /\ UNCHANGED <<enginevars, issuevars, incvars, mapvars, gapvars, textvars, typevars, links, epics>>

LinkNext ==
    \/ StartRelationships
    \/ SynchronizeLink
    \/ SynchronizeEpicLink

LinkSpec == LinkInit /\ [][LinkNext]_vars

(***************************************************************************)
(* _process_single_issue from the creation of the destination issue on     *)
(* (sync/__init__.py lines 957-993), one write at a time.                  *)
(***************************************************************************)
MaxAttachments == 2
MaxComments == 2

\* line 962 and line 970: the transfer that follows position pos; a transfer
\* that is disabled or has no item makes no call
AfterStep(pos, fields, withAttachments, withComments) ==
    IF pos = "create" /\ withAttachments /\ fields.attachments > 0
    THEN "attachments"
    ELSE IF pos \in {"create", "attachments"} /\ withComments /\ fields.comments > 0
         THEN "comments"
         ELSE "record"

IssueInit ==
    /\ EngineIdleWith(TRUE, <<>>)
    /\ MapIdle
    /\ GapIdle
    /\ TextIdle
    /\ TypeIdle
    /\ LinkIdle
    /\ IncrementalIdle
    /\ issue_pc = "create"
    /\ issue_fields \in [attachments : 0..MaxAttachments, comments : 0..MaxComments]
    /\ include_attachments \in BOOLEAN
    /\ include_comments \in BOOLEAN
    /\ item_pos = 0
    /\ issue_calls = <<>>
    /\ interrupted_at = "none"
    /\ mapping_recorded = FALSE

\* line 958: dest_api.create_issue; its APIError is raised on as SyncError
\* (lines 991-993)
CreateDestinationIssue ==
    /\ issue_pc = "create"
    /\ \E ok \in BOOLEAN :
          IF ok
          THEN /\ issue_calls' = Append(issue_calls, "create_issue")
               /\ issue_pc' = AfterStep("create", issue_fields,
                                        include_attachments, include_comments)
          ELSE /\ issue_pc' = "raised"
               /\ UNCHANGED issue_calls
    /\ UNCHANGED <<enginevars, mapvars, gapvars, textvars, typevars, linkvars,
                   incvars, issue_fields, include_attachments, include_comments,
                   item_pos, interrupted_at, mapping_recorded>>

\* _transfer_attachments, lines 999-1012: one attachment; a failure is logged
\* and the loop goes on
TransferAttachment ==
    /\ issue_pc = "attachments"
    /\ \E ok \in BOOLEAN :
          issue_calls' = IF ok THEN Append(issue_calls, "add_attachment")
                         ELSE issue_calls
    /\ IF item_pos + 1 = issue_fields.attachments
       THEN /\ item_pos' = 0
            /\ issue_pc' = AfterStep("attachments", issue_fields,
                                     include_attachments, include_comments)
       ELSE /\ item_pos' = item_pos + 1
            /\ UNCHANGED issue_pc
    /\ UNCHANGED <<enginevars, mapvars, gapvars, textvars, typevars, linkvars,
                   incvars, issue_fields, include_attachments, include_comments,
                   interrupted_at, mapping_recorded>>

\* _transfer_comments, lines 1024-1042: one comment; a failure is logged and
\* the loop goes on
TransferComment ==
    /\ issue_pc = "comments"
    /\ \E ok \in BOOLEAN :
          issue_calls' = IF ok THEN Append(issue_calls, "add_comment")
                         ELSE issue_calls
    /\ IF item_pos + 1 = issue_fields.comments
       THEN /\ item_pos' = 0
            /\ issue_pc' = "record"
       ELSE /\ item_pos' = item_pos + 1
            /\ UNCHANGED issue_pc
    /\ UNCHANGED <<enginevars, mapvars, gapvars, textvars, typevars, linkvars,
                   incvars, issue_fields, include_attachments, include_comments,
                   interrupted_at, mapping_recorded>>

\* lines 976-989: state_manager.add_issue_mapping and the return; the
\* AttributeError of a method StateManager lacks is no APIError and leaves
\* the function as it is
AddIssueMapping ==
    /\ issue_pc = "record"
    /\ IF NoAttribute("add_issue_mapping") = ""
       THEN /\ mapping_recorded' = TRUE
            /\ issue_calls' = Append(issue_calls, "add_issue_mapping")
            /\ issue_pc' = "returned"
       ELSE /\ issue_pc' = "raised"
            /\ UNCHANGED <<mapping_recorded, issue_calls>>
    /\ UNCHANGED <<enginevars, mapvars, gapvars, textvars, typevars, linkvars,
                   incvars, issue_fields, include_attachments, include_comments,
                   item_pos, interrupted_at>>

\* the process ends between two writes
InterruptIssue ==
    /\ issue_pc \in {"create", "attachments", "comments", "record"}
    /\ interrupted_at' = issue_pc
    /\ issue_pc' = "interrupted"
    /\ UNCHANGED <<enginevars, mapvars, gapvars, textvars, typevars, linkvars,
                   incvars, issue_fields, include_attachments, include_comments,
                   item_pos, issue_calls, mapping_recorded>>

IssueNext ==
    \/ CreateDestinationIssue
    \/ TransferAttachment
    \/ TransferComment
    \/ AddIssueMapping
    \/ InterruptIssue

IssueSpec == IssueInit /\ [][IssueNext]_vars

(***************************************************************************)
(* incremental_sync over a store that holds a completed session            *)
(* (sync/__init__.py lines 229-274, 796-850).                              *)
(***************************************************************************)
MaxChanges == 2

\* the rows of table issue_mappings (utils, lines 117-126) of session id
\* for the source issues K
MappingRows(id, K) ==
    {[sync_id |-> id, source_key |-> k, dest_key |-> k + MaxIssueNum] : k \in K}

\* the rows of session id as a dict source key -> destination key
MappingOf(rows, id) ==
    [k \in {r.source_key : r \in {q \in rows : q.sync_id = id}} |->
        (CHOOSE r \in rows : r.sync_id = id /\ r.source_key = k).dest_key]

\* get_last_successful_sync, utils lines 167-178: the completed sessions of
\* the latest end_time (LIMIT 1 takes one of them)
get_last_successful_sync(S) ==
    {id \in DOMAIN S :
        /\ S[id].status = "completed"
        /\ \A o \in DOMAIN S :
              S[o].status = "completed" => S[o].end_time <= S[id].end_time}

\* the lists get_updated_issues (api, lines 315-332) can return
ChangeLists ==
    {c \in UNION {[1..n -> IssueNums] : n \in 0..MaxChanges} :
        \A a, b \in DOMAIN c : a # b => c[a] # c[b]}

\* line 257: the session whose mapping _process_incremental_changes is
\* given: the new sync_id of line 231
MappingSession(id, baseline) == id

\* a new engine over the store a completed fork session left (utils, lines
\* 137-145) with the mapping rows of some of the source issues
IncrementalInit ==
    /\ \E K \in SUBSET IssueNums :
          EngineOverStore(FALSE, <<>>,
                          complete_sync_session(create_sync_session(<<>>, EarlierId),
                                                EarlierId, 1),
                          MappingRows(EarlierId, K))
    /\ MapIdle
    /\ GapIdle
    /\ TextIdle
    /\ TypeIdle
    /\ LinkIdle
    /\ IssueIdle
    /\ inc_pc = "start"
    /\ changes = <<>>
    /\ changes_processed = 0
    /\ dest_updates = {}
    /\ inc_created = {}
    /\ inc_refused = {}

\* lines 237-254: get_last_successful_sync and _detect_changes_since, which
\* returns [] when the request fails (lines 808-809)
DetectChanges ==
    /\ inc_pc = "start"
    /\ get_last_successful_sync(sessions) # {}
    /\ changes' \in ChangeLists
    /\ inc_pc' = IF changes' = <<>> THEN "returned" ELSE "changes"
    /\ UNCHANGED <<enginevars, mapvars, gapvars, textvars, typevars, linkvars,
                   issuevars, changes_processed, dest_updates, inc_created,
                   inc_refused>>

\* lines 257-265 and _process_incremental_changes, lines 811-850: the
\* AttributeError of get_issue_mapping (line 820) is caught at line 848 and
\* 0 is returned; oks: the changes whose request the destination answers.
\* A changed issue without entry goes to _process_single_issue, which
\* raises on an engine without setup (line 922) and at add_issue_mapping
\* (line 977) otherwise, after it created the issue
ProcessIncrementalChanges ==
    /\ inc_pc = "changes"
    /\ \E baseline \in get_last_successful_sync(sessions),
          oks \in SUBSET DOMAIN changes :
        IF NoAttribute("get_issue_mapping") # ""
        THEN /\ changes_processed' = 0
             /\ UNCHANGED <<dest_updates, inc_created, inc_refused>>
        ELSE LET m == MappingOf(issue_mappings,
                                MappingSession("uuid-incremental", baseline))
                 known == {k \in DOMAIN changes : changes[k] \in DOMAIN m}
             IN  /\ dest_updates' = {m[changes[k]] : k \in known \cap oks}
                 /\ inc_created' =
                        IF engineReady
                        THEN {changes[k] : k \in (DOMAIN changes \ known) \cap oks}
                        ELSE {}
                 /\ inc_refused' = {changes[k] : k \in DOMAIN changes \ oks}
                 /\ changes_processed' = Cardinality(known \cap oks)
    /\ inc_pc' = "returned"
    /\ UNCHANGED <<enginevars, mapvars, gapvars, textvars, typevars, linkvars,
                   issuevars, changes>>

IncrementalNext ==
    \/ DetectChanges
    \/ ProcessIncrementalChanges

IncrementalSpec == IncrementalInit /\ [][IncrementalNext]_vars

\* ---- properties ----
\* keys of the destination issues session id created, in creation order
CreatedKeys(id) ==
    LET OfSession(d) == d.sync_id = id
        mine == SelectSeq(destIssues, OfSession)
    IN  [k \in DOMAIN mine |-> mine[k].source_key]

\* s restricted to the members of S
Restrict(s, S) ==
    LET Keep(x) == x \in S
    IN  SelectSeq(s, Keep)

\* C1: in the sequential transfer an issue whose processing fails is left
\* out of the issue mapping and of issues_processed, and the loop goes on:
\* every index from the start index on is attempted, the loop only ends at
\* the end of the list.
C1_FailedIssueSkippedLoopContinues ==
    pc \in {"loop", "finish"} =>
        /\ run.attempted = [k \in 1..(i - start_index) |-> start_index + k - 1]
        /\ pc = "finish" => i = Len(issues)
        /\ \A k \in run.failed : issues[k + 1] \notin DOMAIN issue_mapping
        /\ issues_processed = Len(run.attempted) - Cardinality(run.failed)

\* C1 witness: the loop reached its end after an issue that is not the last
\* one failed
C1_Witness ==
    /\ pc = "finish"
    /\ \E k \in run.failed : k + 1 < Len(issues)
    /\ Len(run.attempted) >= 2

\* C2: a fork run whose phase-level calls all succeed and in which some
\* issues fail ends with the session 'completed' and a result with success =
\* true, issues_processed = number of destination issues created, and the
\* mapping holding exactly their keys.
C2_PartialFailureRunCompletes ==
    (/\ lastResult.op = "fork" /\ lastResult.kind # "none" /\ ~run.fault
     /\ Len(run.created) >= 1 /\ Len(run.created) < Len(run.attempted)) =>
        /\ lastResult.kind = "returned"
        /\ lastResult.success
        /\ lastResult.sync_id \in DOMAIN sessions
        /\ sessions[lastResult.sync_id].status = "completed"
        /\ lastResult.issues_processed = Len(run.created)
        /\ DOMAIN issue_mapping = Range(run.created)

\* C3: fork_project never raises; a failure raised in any phase leaves the
\* session 'failed' in the store with the captured message and gives a
\* result with success = false and that message.
C3_ForkFailureMarksSessionFailed ==
    (lastResult.op = "fork" /\ lastResult.kind # "none" /\ run.raisedIn # "") =>
        /\ lastResult.kind = "returned"
        /\ ~lastResult.success
        /\ lastResult.error_message = err
        /\ lastResult.sync_id \in DOMAIN sessions
        /\ sessions[lastResult.sync_id].status = "failed"
        /\ sessions[lastResult.sync_id].error_message = err

\* C4: once a session is 'completed' or 'failed', no operation changes its
\* status, end_time or error.
C4_TerminalSessionImmutable ==
    [][\A id \in DOMAIN sessions :
          sessions[id].status \in {"completed", "failed"} =>
              id \in DOMAIN sessions' /\ sessions'[id] = sessions[id]]_vars

\* C4 witness: resume_sync returned for the session of the fork run, which
\* the fork run had left 'failed'
C4_Witness ==
    /\ lastResult.op = "resume"
    /\ lastResult.kind = "returned"
    /\ lastResult.sync_id = NewId
    /\ NewId \in DOMAIN sessions
    /\ sessions[NewId].status = "failed"

\* C5: within one session at most one destination issue is created for each
\* source issue key, the fork run and every resume taken together.
C5_OneDestinationIssuePerSourceKey ==
    \A a, b \in DOMAIN destIssues :
        (/\ destIssues[a].sync_id = destIssues[b].sync_id
         /\ destIssues[a].source_key = destIssues[b].source_key) => a = b

\* C5 witness: resume_sync returned for an interrupted session whose latest
\* checkpoint names a key that was created in the destination before
C5_Witness ==
    /\ lastResult.op = "resume"
    /\ lastResult.kind = "returned"
    /\ run.target = "running"
    /\ \E c \in get_last_checkpoint(checkpoints, lastResult.sync_id) :
           checkpoints[c].data.last_processed_issue
               \in Range(CreatedKeys(lastResult.sync_id))

\* C6: after an interrupt that follows the checkpoint naming key K, and a
\* resume of the session, the store holds exactly one mapping row for
\* (session, K).
C6_OneMappingRowAfterResume ==
    (lastResult.op = "resume" /\ lastResult.kind = "returned"
     /\ run.target = "running") =>
        \A c \in get_last_checkpoint(checkpoints, lastResult.sync_id) :
            Cardinality({m \in issue_mappings :
                            /\ m.sync_id = lastResult.sync_id
                            /\ m.source_key =
                                 checkpoints[c].data.last_processed_issue}) = 1

\* C7: in a fork run the destination issues are created in ascending source
\* key order: the keys in creation order are the fetched list restricted to
\* the issues that were created.
C7_ForkCreationOrderAscending ==
    mode = "fork" =>
        /\ Ascends(run.created)
        /\ run.created = Restrict(issues, Range(run.created))

\* C7 witness: a fork run created the issues before and after one that failed
C7_Witness ==
    /\ mode = "fork"
    /\ pc = "finish"
    /\ \E a, b, c \in Range(issues) :
          /\ a < b /\ b < c
          /\ a \in Range(run.created)
          /\ b \notin Range(run.created)
          /\ c \in Range(run.created)

\* C8: over a whole session, fork run and resumes, no destination issue is
\* created after the destination issue of a larger source key.
C8_SessionCreationOrderAscending ==
    \A id \in SessionIds : Ascends(CreatedKeys(id))

\* C8 witness: resume_sync returned for a session that has created two issues
C8_Witness ==
    /\ lastResult.op = "resume"
    /\ lastResult.kind = "returned"
    /\ Len(CreatedKeys(lastResult.sync_id)) >= 2

\* C9: resume_sync of an unknown or a completed session returns a failure
\* with a message and changes neither the destination nor the store.
C9_ResumeRejectsUnknownOrCompleted ==
    run.target \in {"missing", "completed"} =>
        /\ pc = "idle"
        /\ lastResult.op = "resume"
        /\ lastResult.kind = "returned"
        /\ ~lastResult.success
        /\ lastResult.error_message # ""
        /\ run.before = Snapshot

\* C9 witness: resume_sync returned for an id that names no session
C9_Witness ==
    /\ lastResult.op = "resume"
    /\ run.target = "missing"
    /\ lastResult.sync_id \notin DOMAIN sessions

\* C10: resume_sync enters issue processing only from a latest checkpoint
\* of phase 'issue_processing'; otherwise, also without any checkpoint, it
\* returns a failure, does not raise and creates no destination issue.
C10_ResumeNeedsIssueProcessingCheckpoint ==
    /\ mode = "resume" => run.checkpoint = "issue_processing"
    /\ (lastResult.op = "resume" /\ run.checkpoint # "issue_processing") =>
          /\ lastResult.kind = "returned"
          /\ ~lastResult.success
          /\ Len(destIssues) = run.before[4]

\* C10 witness: resume_sync returned for a session that has no checkpoint
C10_Witness ==
    /\ lastResult.op = "resume"
    /\ lastResult.kind = "returned"
    /\ run.target \in {"running", "failed"}
    /\ run.checkpoint = "none"

\* position of the phases of fork_project in the order the code runs them:
\* analysis, setup and mapping (1), sequential transfer (2), mapping save,
\* relationship sync and validation (3), the except block (4), returned (5)
PhaseRank(p) ==
    CASE p = "phases" -> 1
      [] p = "loop" -> 2
      [] p = "finish" -> 3
      [] p = "handler" -> 4
      [] OTHER -> 5

\* C11: a resume attempts exactly the issues of the re-fetched ascending list
\* from the checkpointed key on (that key included), none before it, also
\* when the list no longer holds the key.
C11_ResumeAttemptsFromCheckpointedKey ==
    (/\ lastResult.op = "resume" /\ lastResult.kind = "returned"
     /\ run.checkpoint = "issue_processing" /\ ~run.fault) =>
        \E c \in get_last_checkpoint(checkpoints, lastResult.sync_id) :
            {get_issues_in_order(source)[k + 1] : k \in Range(run.attempted)}
                = {n \in source : n >= checkpoints[c].data.last_processed_issue}

\* C12: in the sequential transfer with batch size N a checkpoint is
\* appended for exactly the indices i with i mod N = 0 (whose write returns),
\* before issue i is processed, with phase 'issue_processing', progress i and
\* the key of issue i as resume data; no other index gets a checkpoint.
C12_CheckpointAtEachBatchBoundary ==
    pc \in {"loop", "finish"} =>
        LET first == Len(run.before[2])
            mine == [k \in 1..(Len(checkpoints) - first) |-> checkpoints[first + k]]
            reached == (start_index..(i - 1)) \cup (IF cpDone THEN {i} ELSE {})
            due == {p \in reached : p % batch_size = 0 /\ p \notin run.cpFailed}
        IN  /\ Len(mine) = Cardinality(due)
            /\ \A k \in DOMAIN mine :
                  /\ mine[k].progress \in due
                  /\ mine[k].sync_id = sync_id
                  /\ mine[k].phase = "issue_processing"
                  /\ mine[k].total = Len(issues)
                  /\ mine[k].data.last_processed_issue = issues[mine[k].progress + 1]
            /\ \A a, b \in DOMAIN mine : a < b => mine[a].progress < mine[b].progress
            /\ cpDone => i \notin Range(run.attempted)

\* C12 witness: a transfer with batch size 2 went through three issues and
\* wrote the checkpoints of indices 0 and 2, none at index 1
C12_Witness ==
    /\ pc = "finish"
    /\ batch_size = 2
    /\ run.attempted = <<0, 1, 2>>
    /\ Len(checkpoints) - Len(run.before[2]) = 2

\* C13: when the checkpoint write that opens a batch fails, no issue of that
\* batch is created in the destination unless a checkpoint with the progress
\* of the batch's first index is stored.
C13_NoIssueCreatedBeforeBatchCheckpoint ==
    pc \in {"loop", "finish"} =>
        \A p \in run.cpFailed :
            \A k \in DOMAIN issues :
                (/\ p <= k - 1 /\ k - 1 < p + batch_size
                 /\ issues[k] \in Range(run.created)) =>
                    \E c \in DOMAIN checkpoints :
                        /\ checkpoints[c].sync_id = sync_id
                        /\ checkpoints[c].progress = p

\* C14: get_last_checkpoint(session) returns the checkpoint of the session
\* that was appended last, also when checkpoints carry the same timestamp.
C14_LastCheckpointIsLastAppended ==
    \A id \in SessionIds :
        \A c \in get_last_checkpoint(checkpoints, id) :
            \A j \in DOMAIN checkpoints : checkpoints[j].sync_id = id => j <= c

\* C15: after a process-level interrupt that follows the first checkpoint,
\* a resume_sync of the session attempts every source issue from the latest
\* checkpoint's key on, so that the interrupted run and the resume together
\* have attempted each of them.
C15_InterruptedRunResumeCoversAllIssues ==
    (/\ lastResult.op = "resume" /\ lastResult.kind = "returned"
     /\ run.afterInterrupt /\ run.checkpoint = "issue_processing"
     /\ ~run.fault) =>
        \E c \in get_last_checkpoint(checkpoints, lastResult.sync_id) :
            \A n \in source :
                n >= checkpoints[c].data.last_processed_issue =>
                    <<lastResult.sync_id, n>> \in attempted

\* C16: when fork_project or resume_sync returns a non-success result for an
\* existing session that was not terminal before, the store holds the session
\* as 'failed' with the captured error as its message.
C16_PhaseErrorMarksSessionFailed ==
    (/\ lastResult.kind = "returned" /\ ~lastResult.success
     /\ lastResult.sync_id \in DOMAIN sessions
     /\ run.target \in {"new", "running"}
     /\ lastResult.op = "resume" => ~run.fault) =>
        /\ sessions[lastResult.sync_id].status = "failed"
        /\ sessions[lastResult.sync_id].error_message = lastResult.error_message

SynonymGroups(cat) ==
    CASE cat = "issue_type" -> {{common_types[c]} : c \in DOMAIN common_types}
      [] cat = "status" ->
          {{status_categories[c].category} \cup status_categories[c].keywords :
              c \in DOMAIN status_categories}
      [] OTHER ->
          {{STANDARD_LINK_TYPES[g].standard}
              \cup Range(STANDARD_LINK_TYPES[g].alternatives) :
              g \in DOMAIN STANDARD_LINK_TYPES}

\* the lower-cased source name belongs to group g
Member(name, g) == \E m \in g : Contains(m, name)

\* the lower-cased name of the destination entity a dict value stands for:
\* an id for issue types and statuses, a name for link types
TargetName(cat, value) ==
    IF cat = "link_type" THEN lower(value) ELSE lower(dest_names[value])

DestNamesLower == {lower(dest_names[k]) : k \in DOMAIN dest_names}

\* the source name has no exact match and no synonym group of it has a member
\* in the destination
Unmatched(s) ==
    /\ lower(s) \notin DestNamesLower
    /\ \A g \in SynonymGroups(category) :
           Member(lower(s), g) => g \cap DestNamesLower = {}

\* C18: the issue-type, status and link-type mapping functions give every
\* source name an entry whenever the list of destination entities is not
\* empty; a name is left out only for an empty destination category.
C18_MappingTotalOnNonEmptyDestination ==
    mapped =>
        /\ DOMAIN mapping \subseteq source_names
        /\ dest_names # <<>> => DOMAIN mapping = source_names

\* C18 witness: a mapping was built for two source names, one of them
\* without exact or synonym match, over a non-empty destination
C18_Witness ==
    /\ mapped
    /\ Cardinality(source_names) = 2
    /\ dest_names # <<>>
    /\ \E s \in source_names : Unmatched(s)

\* C19: a source name without case-insensitive exact match that belongs to a
\* synonym group with a member in the destination is mapped to a destination
\* entity of such a group, not to an entity outside of it.
C19_SynonymMapsWithinGroup ==
    mapped =>
        \A s \in source_names :
            (/\ lower(s) \notin DestNamesLower
             /\ \E g \in SynonymGroups(category) :
                    Member(lower(s), g) /\ g \cap DestNamesLower # {}) =>
                /\ s \in DOMAIN mapping
                /\ \E g \in SynonymGroups(category) :
                       /\ Member(lower(s), g)
                       /\ TargetName(category, mapping[s]) \in g

\* C20 as claimed: an issue type or status name without exact and without
\* synonym match is mapped to the first destination entity in received order.
C20_UnmatchedNameMapsToFirstEntity ==
    (mapped /\ category \in {"issue_type", "status"}) =>
        \A s \in source_names :
            (dest_names # <<>> /\ Unmatched(s)) =>
                s \in DOMAIN mapping /\ mapping[s] = 1

\* C20 amended: a status name without exact and without synonym match is
\* mapped to the first destination entity in received order; an issue type
\* name without them is mapped to the destination type named 'task' when the
\* destination has one, and to the first destination entity otherwise.
C20_UnmatchedNameMapsToDefaultOrFirst ==
    (mapped /\ category \in {"issue_type", "status"}) =>
        \A s \in source_names :
            (dest_names # <<>> /\ Unmatched(s)) =>
                /\ s \in DOMAIN mapping
                /\ IF category = "issue_type" /\ "task" \in DestNamesLower
                   THEN TargetName(category, mapping[s]) = "task"
                   ELSE mapping[s] = 1

\* C20 witness: an issue type name without exact and without synonym match
\* was mapped to the destination's Task, which is not the first entity
C20_Witness ==
    /\ mapped
    /\ category = "issue_type"
    /\ \E s \in source_names :
          /\ Unmatched(s)
          /\ s \in DOMAIN mapping
          /\ mapping[s] # 1
          /\ TargetName(category, mapping[s]) = "task"

\* C30: every checkpoint of the store has 0 <= progress <= total, and the
\* total of a checkpoint the running transfer wrote, in a fork run or in a
\* resume, is the length of the fetched list.
C30_CheckpointProgressWithinTotal ==
    /\ \A k \in DOMAIN checkpoints :
          /\ 0 <= checkpoints[k].progress
          /\ checkpoints[k].progress <= checkpoints[k].total
    /\ pc \in {"loop", "finish"} =>
          \A k \in DOMAIN checkpoints :
              k > Len(run.before[2]) => checkpoints[k].total = Len(issues)

\* C30 witness: the transfer wrote a checkpoint at an index that is not the
\* first one of the list
C30_Witness ==
    /\ pc \in {"loop", "finish"}
    /\ \E k \in DOMAIN checkpoints :
          /\ k > Len(run.before[2])
          /\ checkpoints[k].progress >= 1
          /\ checkpoints[k].total = Len(issues)

\* C26: the dry run, which is the source analysis with its gap detection
\* and nothing else, is read-only: the step that returns its result leaves
\* the source project, the destination project and every table of the store
\* as they were.
C26_DryRunIsReadOnly ==
    [][(pc = "idle" /\ lastResult'.op = "dry_run") =>
          /\ source' = source
          /\ destIssues' = destIssues
          /\ sessions' = sessions
          /\ checkpoints' = checkpoints
          /\ issue_mappings' = issue_mappings]_vars

\* C26 witness: a dry run returned its estimate over a store and a
\* destination that a fork run had written to
C26_Witness ==
    /\ lastResult.op = "dry_run"
    /\ lastResult.success
    /\ lastResult.issues_processed >= 2
    /\ NewId \in DOMAIN sessions
    /\ Len(destIssues) >= 1
    /\ run.before = Snapshot

\* C29: incremental_sync called while the store holds no completed session
\* returns (it does not raise) a result with success = false and a message,
\* and leaves the destination and the store as they were.
C29_IncrementalWithoutCompletedSessionFails ==
    (lastResult.op = "incremental" /\ run.target = "no completed session") =>
        /\ pc = "idle"
        /\ lastResult.kind = "returned"
        /\ ~lastResult.success
        /\ lastResult.error_message # ""
        /\ run.before = Snapshot

\* C29 witness: incremental_sync returned on a store whose only sessions
\* are failed ones, get_last_successful_sync having returned no row
C29_Witness ==
    /\ lastResult.op = "incremental"
    /\ ~run.fault
    /\ sessions # <<>>
    /\ \A id \in DOMAIN sessions : sessions[id].status = "failed"
    /\ lastResult.error_message = "No previous sync found for incremental update"

\* C25: for every list of keys, in any order and with duplicates, the gaps
\* returned have start <= end, ascend, are pairwise disjoint and not
\* adjacent, and cover exactly the integers strictly between the smallest
\* and the largest number that no key carries; a list of at most one key
\* gives no gap.
C25_GapsCoverMissingNumbers ==
    gaps_detected =>
        LET nums == Range(ParseNumbers(issue_keys))
            missing == IF nums = {} THEN {}
                       ELSE {n \in 1..MaxKeyNum :
                                /\ n \notin nums
                                /\ \E a, b \in nums : a < n /\ n < b}
        IN  /\ \A k \in DOMAIN gaps : gaps[k].start_number <= gaps[k].end_number
            /\ \A k \in DOMAIN gaps :
                  k < Len(gaps) => gaps[k].end_number + 1 < gaps[k + 1].start_number
            /\ UNION {gaps[k].start_number..gaps[k].end_number : k \in DOMAIN gaps}
                  = missing
            /\ Len(issue_keys) <= 1 => gaps = <<>>

\* C25 witness: two gaps were returned for a list that is not in ascending
\* order and names a key twice
C25_Witness ==
    /\ gaps_detected
    /\ Len(gaps) >= 2
    /\ \E a, b \in DOMAIN issue_keys : a < b /\ issue_keys[a] > issue_keys[b]
    /\ \E a, b \in DOMAIN issue_keys : a # b /\ issue_keys[a] = issue_keys[b]
    /\ Unparsable \notin Range(issue_keys)

\* C27: for every summary, absent or a string, truncate_summary returns a
\* string of at most 255 characters that is not empty, the placeholder for
\* an absent or empty summary, and applying it to its own result returns
\* that result.
C27_TruncateSummaryBoundedIdempotent ==
    text_fn = "truncate_summary" =>
        /\ text_calls >= 1 =>
              /\ Len(text_out.value) <= 255
              /\ text_out.value # <<>>
              /\ Falsy(text_arg) => text_out.value = NoSummary
        /\ text_calls >= 2 => text_again = text_out

\* C27 witness: a summary of more than 255 characters went through the
\* function twice
C27_Witness ==
    /\ text_fn = "truncate_summary"
    /\ text_calls = 2
    /\ text_arg.type = "str"
    /\ Len(text_arg.value) > 255
    /\ Len(text_again.value) = 255

\* number of characters of the text nodes of the paragraph nodes from k on
RECURSIVE TextLength(_, _)
TextLength(content, k) ==
    IF k > Len(content) THEN 0
    ELSE LET nodes == content[k].content
             Count[n \in 0..Len(nodes)] ==
                 IF n = 0 THEN 0
                 ELSE Count[n - 1] + (IF nodes[n].type = "text"
                                      THEN Len(nodes[n].text) ELSE 0)
         IN  Count[Len(nodes)] + TextLength(content, k + 1)

\* C28: for every description the function returns a document whose
\* content is a sequence of paragraphs, each a non-empty sequence of hard
\* breaks and of text runs that are not empty, with at most 32767
\* characters of text in all; a structured document is returned unchanged.
C28_DescriptionIsWellFormedDocument ==
    (text_fn = "format_description_for_cloud" /\ text_calls = 1) =>
        LET doc == text_out.value
        IN  /\ doc.type = "doc"
            /\ \A p \in DOMAIN doc.content :
                  /\ doc.content[p].type = "paragraph"
                  /\ doc.content[p].content # <<>>
                  /\ \A n \in DOMAIN doc.content[p].content :
                        LET node == doc.content[p].content[n]
                        IN  \/ node.type = "hardBreak"
                            \/ node.type = "text" /\ node.text # <<>>
            /\ TextLength(doc.content, 1) <= 32767
            /\ text_arg.type = "dict" => doc = text_arg.value

\* C21: within one session every issue of the same source issue type name
\* is given the same destination issue type id, whatever happens to the
\* issue types of the destination between two issues.
C21_IssueTypeIdStableWithinSession ==
    \A a, b \in DOMAIN type_used :
        type_used[a].name = type_used[b].name => type_used[a].id = type_used[b].id

\* the entries of the log that are generic links between two mapped issues
\* whose link type has no exact and no synonym match in the destination
UnmatchedLinks ==
    {k \in DOMAIN link_log :
        /\ link_log[k].loop = "links"
        /\ links[link_log[k].index].source_issue \in DOMAIN issue_mapping
        /\ links[link_log[k].index].target_issue \in DOMAIN issue_mapping
        /\ Unmatched(links[link_log[k].index].link_type)}

\* number of entries of the log with the outcome
Counted(outcome) == Cardinality({k \in DOMAIN link_log : link_log[k].outcome = outcome})

C23_FailedOnlyAfterFallbackAttempt ==
    \A k \in UnmatchedLinks \cup
              {j \in DOMAIN link_log :
                  /\ link_log[j].loop = "links"
                  /\ link_log[j].outcome # "skipped"
                  /\ links[link_log[j].index].link_type \notin DOMAIN mapping} :
        link_log[k].outcome = "failed" =>
            \/ dest_names = <<>>
            \/ /\ link_log[k].attempts # <<>>
               /\ link_log[k].attempts[1] =
                     (IF "relates to" \in DestNamesLower THEN "relates to"
                      ELSE get_available_link_types(dest_names)[1])
               /\ \A a \in DOMAIN link_log[k].attempts : ~link_log[k].oks[a]

\* C23 witness: a link of unmatched type was counted as failed after the
\* call for the first link type of a destination without 'relates to' was
\* refused
C23_Witness ==
    /\ dest_names # <<>>
    /\ "relates to" \notin DestNamesLower
    /\ \E k \in UnmatchedLinks :
          /\ link_log[k].outcome = "failed"
          /\ link_log[k].attempts = <<get_available_link_types(dest_names)[1]>>
    /\ links_failed >= 1

CreatedBefore(id) ==
    {destIssues[k].source_key :
        k \in {j \in DOMAIN destIssues :
                  j <= run.before[4] /\ destIssues[j].sync_id = id}}

\* C31: in a resume that follows an interrupt, the issues the session had
\* created before the interrupt and that the resume attempts again, and
\* among them those it creates again, are at most batch_size.
C31_ResumeRepeatsAtMostOneBatch ==
    run.afterInterrupt =>
        LET id == IF mode = "resume" THEN sync_id ELSE lastResult.sync_id
            again == {k \in Range(run.attempted) : issues[k + 1] \in CreatedBefore(id)}
            recreated == {k \in DOMAIN destIssues :
                             /\ k > run.before[4]
                             /\ destIssues[k].sync_id = id
                             /\ destIssues[k].source_key \in CreatedBefore(id)}
        IN  /\ Cardinality(again) <= batch_size
            /\ Cardinality(recreated) <= batch_size

\* C31 witness: resume_sync returned for a session that was interrupted
\* after it had created two issues of its last batch
C31_Witness ==
    /\ run.afterInterrupt
    /\ lastResult.op = "resume"
    /\ lastResult.kind = "returned"
    /\ Cardinality(CreatedBefore(lastResult.sync_id)) >= 2
    /\ batch_size = 2

\* C36: when the transfer loop of an uninterrupted run is through, every
\* destination issue the run created has its entry in the issue mapping
\* and is counted in issues_processed, whatever failed after the issue was
\* created.
C36_CreatedIssuesAreInMapping ==
    pc = "finish" =>
        /\ Range(run.created) \subseteq DOMAIN issue_mapping
        /\ issues_processed = Len(run.created)

\* C32: the mapping of the source key to the destination key is in the store
\* before any attachment or comment of the issue is transferred, so that an
\* interruption during these transfers finds the mapping row of the
\* destination issue that was created.
C32_MappingRecordedBeforeTransfers ==
    /\ (\E k \in DOMAIN issue_calls :
            issue_calls[k] \in {"add_attachment", "add_comment"})
          => mapping_recorded
    /\ (issue_pc = "interrupted" /\ interrupted_at \in {"attachments", "comments"})
          => mapping_recorded

\* the entries gone through so far whose two endpoints are in the issue
\* mapping
MappedEntries ==
    {k \in DOMAIN link_log :
        IF link_log[k].loop = "links"
        THEN /\ links[link_log[k].index].source_issue \in DOMAIN issue_mapping
             /\ links[link_log[k].index].target_issue \in DOMAIN issue_mapping
        ELSE /\ epics[link_log[k].index].epic_key \in DOMAIN issue_mapping
             /\ epics[link_log[k].index].issue_key \in DOMAIN issue_mapping}

\* the two endpoints of the fetched entry of position k of the log
Endpoints(k) ==
    IF link_log[k].loop = "links"
    THEN <<links[link_log[k].index].source_issue,
           links[link_log[k].index].target_issue>>
    ELSE <<epics[link_log[k].index].epic_key,
           epics[link_log[k].index].issue_key>>

\* C33: links are created only by the relationship synchronization, which
\* runs on the mapping the finished transfer loop returned; both endpoints
\* of every link of the destination are values of that mapping, the values
\* of the two endpoints of the fetched entry, and for an entry with an
\* endpoint outside the mapping no creation call is made and no link exists.
C33_LinksOnlyBetweenMappedIssues ==
    /\ dest_links # <<>> => link_pc \in {"links", "epics", "returned"}
    /\ issue_mapping = MappedIssues
    /\ \A d \in DOMAIN dest_links :
          /\ dest_links[d].inwardIssue \in Range(issue_mapping)
          /\ dest_links[d].outwardIssue \in Range(issue_mapping)
          /\ \E k \in MappedEntries :
                /\ dest_links[d].entry = <<link_log[k].loop, link_log[k].index>>
                /\ dest_links[d].inwardIssue = issue_mapping[Endpoints(k)[1]]
                /\ dest_links[d].outwardIssue = issue_mapping[Endpoints(k)[2]]
    /\ \A k \in DOMAIN link_log \ MappedEntries :
          /\ link_log[k].attempts = <<>>
          /\ link_log[k].outcome = "skipped"

\* C33 witness: the function returned after it created a generic link and a
\* hierarchy link between mapped issues and passed over a link of P-1 with
\* the unmapped P-3
C33_Witness ==
    /\ link_pc = "returned"
    /\ \E d1, d2 \in DOMAIN dest_links :
          /\ dest_links[d1].entry[1] = "links"
          /\ dest_links[d2].entry[1] = "epics"
    /\ \E k \in DOMAIN link_log \ MappedEntries : link_log[k].loop = "links"

\* C37: when _synchronize_relationships has returned, links_created plus
\* links_failed is the number of fetched generic and hierarchy links whose
\* two endpoints are in the issue mapping: each of them was counted once,
\* as created or as failed, and no other entry was counted.
C37_CountsCoverMappedLinks ==
    /\ links_created + links_failed = Cardinality(MappedEntries)
    /\ \A k \in DOMAIN link_log :
          (link_log[k].outcome \in {"created", "failed"}) <=> k \in MappedEntries
    /\ link_pc = "returned" =>
          /\ Len(link_log) = Len(links) + Len(epics)
          /\ \A k \in 1..Len(links) :
                link_log[k].loop = "links" /\ link_log[k].index = k
          /\ \A k \in 1..Len(epics) :
                /\ link_log[Len(links) + k].loop = "epics"
                /\ link_log[Len(links) + k].index = k

\* C37 witness: the function returned with one link created, one link
\* failed and one entry with an unmapped endpoint left uncounted
C37_Witness ==
    /\ link_pc = "returned"
    /\ links_created = 1
    /\ links_failed = 1
    /\ Len(link_log) = 3
    /\ \E k \in DOMAIN link_log : link_log[k].loop = "epics" /\ link_log[k].outcome = "failed"

C34_ResumeLinksWholeSession ==
    (/\ lastResult.op = "resume" /\ lastResult.kind = "returned"
     /\ run.afterInterrupt /\ run.checkpoint = "issue_processing"
     /\ ~run.fault
     /\ CreatedBefore(lastResult.sync_id) # {}) =>
        /\ run.relations.called
        /\ CreatedBefore(lastResult.sync_id) \subseteq run.relations.keys

====
